---------------------------- MODULE Spec2Model ----------------------------
(***************************************************************************)
(* Record Store of the music bot (services/firebase_service.py):           *)
(* FirebaseService keeps users, songs, statistics and broadcast messages   *)
(* either in Firestore (self.initialized and self.db) or in the            *)
(* in-process dictionary self.local_storage.                                *)
(*                                                                         *)
(* Every method is an operator over the instance `self`: it returns the    *)
(* instance after the call, the value returned to the caller, whether the  *)
(* body raised into its `except Exception` handler, and the backend the    *)
(* call touched.  The methods contain no await, so each call is one step.  *)
(*                                                                         *)
(* On top of it: the Downloader (services/downloader.py) with the files it *)
(* leaves on disk, and the MusicBot handlers (bot.py) with the per-user    *)
(* conversation state.                                                     *)
(*                                                                         *)
(* Time is counted in ticks; TicksPerHour ticks make one hour.             *)
(***************************************************************************)
EXTENDS Integers, Sequences, FiniteSets, TLC

VARIABLES svc,       \* the FirebaseService instance and the Firestore database behind it
          now,       \* datetime.now()
          ret,       \* the last call: its name, arguments, result
          twin,      \* a second instance (in-process backend) run side by side
          twin_ret,  \* the twin's result of the last call
          ever,      \* history: the broadcast ids ever stored, and ever seen inactive
          bot,       \* the MusicBot instance: user_states and context.user_data
          dl,        \* the Downloader instance and the files on disk
          ev,        \* the last update handled or download call made, and its outcome
          host       \* the machine: the tools installed, os.environ, the ffmpeg_manager

vars == <<svc, now, ret, twin, twin_ret, ever, bot, dl, ev, host>>

\* the variables of the bot and the downloader
front == <<bot, dl, ev, host>>

----------------------------------------------------------------------------
(* Bounds of the model *)

TicksPerHour == 2      \* clock resolution: one tick is 30 minutes
StartTime == 3         \* clock reading when the process starts
MaxClock == 5          \* the clock stops advancing here
MaxCount == 2          \* increment_stat is not called on a counter at this value
MaxFail == 2           \* index of the backend call that may raise (0 = none)
MaxHours == 1          \* longest requested broadcast lifetime, in hours
MaxLen == 2            \* longest text, in tokens
MaxFiles == 3          \* no download is started with this many files on disk
MaxSongs == 1          \* the bot recognises no more songs than this
MaxHits == 2           \* longest list in a response of the Shazam service, and largest limit
MaxSeconds == 7325     \* longest duration formatted, in seconds (2:02:05)

----------------------------------------------------------------------------
(* Values *)

None == "None"                     \* Python None in an Optional[str] field
NoneTime == 0 - 1                  \* Python None in an Optional[datetime] field
NoUser == [none |-> TRUE]          \* get_user returning None
NoAttr == [absent |-> TRUE]        \* attribute never assigned (self.local_storage)
EmptyMap == <<>>                   \* {}

Times == 0 .. (MaxClock + (MaxHours + 1) * (TicksPerHour + 1))

\* datetime.isoformat(): the timestamp as text
isoformat(t) == ToString(t)

\* datetime.fromisoformat(): parse the text back
fromisoformat(s) == CHOOSE t \in Times : ToString(t) = s

\* str(x) of an int
str(x) == ToString(x)

\* f"broadcast_{datetime.now().timestamp()}"
BroadcastId(t) == "broadcast_" \o ToString(t)

\* the timestamp a broadcast id was derived from
IdTime(id) == CHOOSE t \in Times : BroadcastId(t) = id

\* `from datetime import datetime`: timedelta is not imported by the module
timedelta_imported == FALSE

\* Python truthiness of an Optional[str]
Truthy(s) == s # None /\ s # ""

Put(m, k, v) == (k :> v) @@ m
Del(m, k) == [x \in DOMAIN m \ {k} |-> m[x]]

\* models.user.User.__init__
User(id, username, first_name, last_name, language, joined_at, is_active, t) ==
    [id |-> id, username |-> username, first_name |-> first_name,
     last_name |-> last_name, language |-> language,
     joined_at |-> IF joined_at # NoneTime THEN joined_at ELSE t,
     is_active |-> is_active]

\* models.song.Song.__init__ (the fields the store keys and counts by)
Song(id, title, shazam_id, recognized_at, t) ==
    [id |-> id, title |-> title, shazam_id |-> shazam_id,
     recognized_at |-> IF recognized_at # NoneTime THEN recognized_at ELSE t]

\* what a method hands back: the instance, the returned value, the exception its
\* except handler caught ("" when none; "BackendError" is a failure of the
\* Firestore call), and the backend branch taken
R(self, value, exc, backend) ==
    [self |-> self, ret |-> value, exc |-> exc, backend |-> backend]

\* the statistics dictionary both backends initialise
ZeroStats(t) ==
    [k \in {"total_users", "songs_recognized", "songs_downloaded", "last_updated"} |->
        IF k = "last_updated" THEN isoformat(t) ELSE 0]

EmptyCloud == [users |-> EmptyMap, songs |-> EmptyMap,
               statistics |-> EmptyMap, broadcasts |-> EmptyMap]

----------------------------------------------------------------------------
(* FirebaseService.__init__ *)

_use_local_storage(self, t) ==
    [self EXCEPT !.local_storage =
        [users |-> EmptyMap, songs |-> EmptyMap, statistics |-> ZeroStats(t),
         broadcasts |-> NoAttr]]

\* init_ok: firebase_admin.initialize_app() and firestore.client() succeed
_initialize_firebase(self, init_ok, t) ==
    IF init_ok
    THEN [self EXCEPT !.db = "client", !.initialized = TRUE]
    ELSE _use_local_storage(self, t)

\* available: the firebase_admin import succeeded (FIREBASE_AVAILABLE)
FirebaseService(available, init_ok, cloud, t) ==
    LET self == [db |-> None, initialized |-> FALSE, local_storage |-> NoAttr,
                 cloud |-> cloud]
    IN IF available THEN _initialize_firebase(self, init_ok, t)
       ELSE _use_local_storage(self, t)

\* `if self.initialized and self.db:`
UsesFirebase(self) == self.initialized /\ self.db # None


----------------------------------------------------------------------------
(* Users *)

user_data_of(user, t) ==
    [id |-> user.id, username |-> user.username, first_name |-> user.first_name,
     last_name |-> user.last_name, language |-> user.language,
     joined_at |-> IF user.joined_at # NoneTime THEN isoformat(user.joined_at)
                   ELSE isoformat(t),
     last_activity |-> isoformat(t),
     is_active |-> TRUE]

\* the User(...) call of get_user: is_active is not passed, so it defaults to True
user_of_data(data, t) ==
    User(data.id, data.username, data.first_name, data.last_name, data.language,
         fromisoformat(data.joined_at), TRUE, t)

\* mutant: the in-process total_users is counted up at every save
save_user_counting(self, user, t, fail) ==
    LET user_data == user_data_of(user, t)
    IN IF UsesFirebase(self)
       THEN IF fail = 1
            THEN R(self, FALSE, "BackendError", "firebase")
            ELSE R([self EXCEPT !.cloud.users = Put(@, str(user.id), user_data)],
                   TRUE, "", "firebase")
       ELSE R([self EXCEPT !.local_storage.users = Put(@, str(user.id), user_data),
                           !.local_storage.statistics["total_users"] = @ + 1],
              TRUE, "", "local")

\* mutant: a failing Firestore call makes the instance fall back to local storage
save_user_with_fallback(self, user, t, fail) ==
    LET user_data == user_data_of(user, t)
    IN IF UsesFirebase(self)
       THEN IF fail = 1
            THEN R(_use_local_storage([self EXCEPT !.initialized = FALSE], t),
                   FALSE, "BackendError", "firebase")
            ELSE R([self EXCEPT !.cloud.users = Put(@, str(user.id), user_data)],
                   TRUE, "", "firebase")
       ELSE LET users == Put(self.local_storage.users, str(user.id), user_data)
            IN R([self EXCEPT !.local_storage.users = users,
                              !.local_storage.statistics["total_users"] =
                                  Cardinality(DOMAIN users)],
                 TRUE, "", "local")

save_user(self, user, t, fail) ==
    LET user_data == user_data_of(user, t)
    IN IF UsesFirebase(self)
       THEN IF fail = 1
            THEN R(self, FALSE, "BackendError", "firebase")
            ELSE R([self EXCEPT !.cloud.users = Put(@, str(user.id), user_data)],
                   TRUE, "", "firebase")
       ELSE LET users == Put(self.local_storage.users, str(user.id), user_data)
            IN R([self EXCEPT !.local_storage.users = users,
                              !.local_storage.statistics["total_users"] =
                                  Cardinality(DOMAIN users)],
                 TRUE, "", "local")

get_user(self, user_id, t, fail) ==
    IF UsesFirebase(self)
    THEN IF fail = 1
         THEN R(self, NoUser, "BackendError", "firebase")
         ELSE IF str(user_id) \in DOMAIN self.cloud.users
              THEN R(self, user_of_data(self.cloud.users[str(user_id)], t), "",
                     "firebase")
              ELSE R(self, NoUser, "", "firebase")
    ELSE IF str(user_id) \in DOMAIN self.local_storage.users
         THEN R(self, user_of_data(self.local_storage.users[str(user_id)], t), "",
                "local")
         ELSE R(self, NoUser, "", "local")

\* Firestore's DocumentReference.update raises NotFound for a missing document
update_user_language(self, user_id, language, t, fail) ==
    IF UsesFirebase(self)
    THEN IF fail = 1
         THEN R(self, FALSE, "BackendError", "firebase")
         ELSE IF str(user_id) \notin DOMAIN self.cloud.users
         THEN R(self, FALSE, "NotFound", "firebase")
         ELSE R([self EXCEPT !.cloud.users[str(user_id)].language = language,
                             !.cloud.users[str(user_id)].last_activity = isoformat(t)],
                TRUE, "", "firebase")
    ELSE IF str(user_id) \in DOMAIN self.local_storage.users
         THEN R([self EXCEPT
                    !.local_storage.users[str(user_id)].language = language,
                    !.local_storage.users[str(user_id)].last_activity = isoformat(t)],
                TRUE, "", "local")
         ELSE R(self, TRUE, "", "local")

\* the stored users as get_all_users walks them; the walk is taken in key order
\* (Firestore streams by document id; the dictionary's insertion order is not
\* part of the stored state)
RECURSIVE UserList(_, _)
UserList(docs, t) ==
    IF DOMAIN docs = {} THEN <<>>
    ELSE LET first == CHOOSE k \in DOMAIN docs :
                          \A j \in DOMAIN docs : docs[k].id <= docs[j].id
         IN <<user_of_data(docs[first], t)>> \o UserList(Del(docs, first), t)

get_all_users(self, t, fail) ==
    IF UsesFirebase(self)
    THEN IF fail = 1
         THEN R(self, <<>>, "BackendError", "firebase")
         ELSE R(self, UserList(self.cloud.users, t), "", "firebase")
    ELSE R(self, UserList(self.local_storage.users, t), "", "local")

----------------------------------------------------------------------------
(* Songs *)

\* song_data carries no 'id' entry
song_data_of(song, t) ==
    [title |-> song.title, shazam_id |-> song.shazam_id,
     recognized_at |-> IF song.recognized_at # NoneTime
                       THEN isoformat(song.recognized_at) ELSE isoformat(t)]

\* `song.shazam_id or str(song.id)`
song_key(song) == IF Truthy(song.shazam_id) THEN song.shazam_id ELSE str(song.id)

save_song(self, song, t, fail) ==
    LET song_data == song_data_of(song, t)
    IN IF UsesFirebase(self)
       THEN IF fail = 1
            THEN R(self, FALSE, "BackendError", "firebase")
            ELSE R([self EXCEPT !.cloud.songs = Put(@, song_key(song), song_data)],
                   TRUE, "", "firebase")
       ELSE R([self EXCEPT !.local_storage.songs = Put(@, song_key(song), song_data)],
              TRUE, "", "local")

\* get_song returning None
NoSong == NoUser

\* the Song(...) call of get_song: song_data has no 'id', so id is 0
song_of_data(data, t) ==
    Song(0, data.title, data.shazam_id, fromisoformat(data.recognized_at), t)

get_song(self, song_id, t, fail) ==
    IF UsesFirebase(self)
    THEN IF fail = 1
         THEN R(self, NoSong, "BackendError", "firebase")
         ELSE IF song_id \in DOMAIN self.cloud.songs
              THEN R(self, song_of_data(self.cloud.songs[song_id], t), "", "firebase")
              ELSE R(self, NoSong, "", "firebase")
    ELSE IF song_id \in DOMAIN self.local_storage.songs
         THEN R(self, song_of_data(self.local_storage.songs[song_id], t), "", "local")
         ELSE R(self, NoSong, "", "local")

----------------------------------------------------------------------------
(* Statistics *)

\* the Firestore path: statistics/bot_stats is returned when it exists, else it
\* is computed from the collection sizes and saved
get_statistics(self, t, fail) ==
    IF UsesFirebase(self)
    THEN IF fail = 1
         THEN R(self, ZeroStats(t), "BackendError", "firebase")
         ELSE IF "bot_stats" \in DOMAIN self.cloud.statistics
              THEN R(self, self.cloud.statistics["bot_stats"], "", "firebase")
              ELSE IF fail > 1
                   THEN R(self, ZeroStats(t), "BackendError", "firebase")
                   ELSE LET users_count == Cardinality(DOMAIN self.cloud.users)
                            songs_count == Cardinality(DOMAIN self.cloud.songs)
                            stats == [k \in DOMAIN ZeroStats(t) |->
                                        CASE k = "total_users" -> users_count
                                          [] k = "songs_recognized" -> songs_count
                                          [] k = "songs_downloaded" -> songs_count
                                          [] OTHER -> isoformat(t)]
                        IN R([self EXCEPT !.cloud.statistics =
                                            Put(@, "bot_stats", stats)],
                             stats, "", "firebase")
    ELSE R(self, self.local_storage.statistics, "", "local")

\* mutant: an absent counter is created at zero
incremented_from_zero(stats, stat_name, t) ==
    LET bumped == IF stat_name \in DOMAIN stats
                  THEN [stats EXCEPT ![stat_name] = @ + 1]
                  ELSE Put(stats, stat_name, 0)
    IN [bumped EXCEPT !["last_updated"] = isoformat(t)]

\* `current_stats[stat_name] += 1` on the text of last_updated is a TypeError
incremented(stats, stat_name, t) ==
    LET bumped == IF stat_name \in DOMAIN stats
                  THEN [stats EXCEPT ![stat_name] = @ + 1]
                  ELSE Put(stats, stat_name, 1)
    IN [bumped EXCEPT !["last_updated"] = isoformat(t)]

\* mutant: the in-process counter is written back from the statistics read at
\* construction, so an update made in between is lost
increment_stat_stale(self, stat_name, t, fail) ==
    IF UsesFirebase(self)
    THEN LET current_stats == IF "bot_stats" \in DOMAIN self.cloud.statistics
                              THEN self.cloud.statistics["bot_stats"]
                              ELSE ZeroStats(t)
         IN IF fail = 1
            THEN R(self, FALSE, "BackendError", "firebase")
            ELSE IF stat_name = "last_updated"
            THEN R(self, FALSE, "TypeError", "firebase")
            ELSE IF fail = 2
            THEN R(self, FALSE, "BackendError", "firebase")
            ELSE R([self EXCEPT !.cloud.statistics =
                        Put(@, "bot_stats", incremented(current_stats, stat_name, t))],
                   TRUE, "", "firebase")
    ELSE IF stat_name = "last_updated"
         THEN R(self, FALSE, "TypeError", "local")
         ELSE R([self EXCEPT !.local_storage.statistics =
                     [@ EXCEPT ![stat_name] =
                         incremented(ZeroStats(t), stat_name, t)[stat_name]]],
                TRUE, "", "local")

increment_stat(self, stat_name, t, fail) ==
    IF UsesFirebase(self)
    THEN LET current_stats == IF "bot_stats" \in DOMAIN self.cloud.statistics
                              THEN self.cloud.statistics["bot_stats"]
                              ELSE ZeroStats(t)
         IN IF fail = 1
            THEN R(self, FALSE, "BackendError", "firebase")
            ELSE IF stat_name = "last_updated"
            THEN R(self, FALSE, "TypeError", "firebase")
            ELSE IF fail = 2
            THEN R(self, FALSE, "BackendError", "firebase")
            ELSE R([self EXCEPT !.cloud.statistics =
                        Put(@, "bot_stats", incremented(current_stats, stat_name, t))],
                   TRUE, "", "firebase")
    ELSE IF stat_name = "last_updated"
         THEN R(self, FALSE, "TypeError", "local")
         ELSE R([self EXCEPT !.local_storage.statistics =
                     incremented(@, stat_name, t)],
                TRUE, "", "local")

----------------------------------------------------------------------------
(* Broadcast messages *)

\* the document ids of a collection in iteration order (ids are time-derived)
RECURSIVE SortedIds(_)
SortedIds(S) ==
    IF S = {} THEN <<>>
    ELSE LET first == CHOOSE x \in S : \A y \in S : IdTime(x) <= IdTime(y)
         IN <<first>> \o SortedIds(S \ {first})

\* mutant: the age of the record is taken for its expiry
Expired_by_sent_at(data, current_time) ==
    current_time > fromisoformat(data.sent_at)

\* `if expires_at:` ... `if current_time > expires_time:`
Expired(data, current_time) ==
    /\ Truthy(data.expires_at)
    /\ current_time > fromisoformat(data.expires_at)

\* the expression of 'expires_at'; timedelta is evaluated only when
\* duration_hours > 0
\* mutant: the handler of save_broadcast_message lets the exception through
save_broadcast_message_reraising(self, message, duration_hours, sent_by, t, fail) ==
    IF duration_hours > 0 /\ ~timedelta_imported
    THEN R(self, "raise", "NameError", "none")
    ELSE IF UsesFirebase(self) /\ fail = 1
    THEN R(self, "raise", "BackendError", "firebase")
    ELSE R(self, BroadcastId(t), "", IF UsesFirebase(self) THEN "firebase" ELSE "local")

save_broadcast_message(self, message, duration_hours, sent_by, t, fail) ==
    LET message_id == BroadcastId(t)
        broadcast_data ==
            [id |-> message_id, message |-> message,
             duration_hours |-> duration_hours, sent_by |-> sent_by,
             sent_at |-> isoformat(t),
             expires_at |-> IF duration_hours > 0
                            THEN isoformat(t + duration_hours * TicksPerHour)
                            ELSE None,
             is_active |-> TRUE]
    IN IF duration_hours > 0 /\ ~timedelta_imported
       THEN R(self, "", "NameError", "none")
       ELSE IF UsesFirebase(self)
       THEN IF fail = 1
            THEN R(self, "", "BackendError", "firebase")
            ELSE R([self EXCEPT !.cloud.broadcasts = Put(@, message_id, broadcast_data)],
                   message_id, "", "firebase")
       ELSE LET old == IF self.local_storage.broadcasts = NoAttr THEN EmptyMap
                       ELSE self.local_storage.broadcasts
            IN R([self EXCEPT !.local_storage.broadcasts =
                      Put(old, message_id, broadcast_data)],
                 message_id, "", "local")

\* the documents of `docs` whose ids are the first n entries of `ids`, marked inactive
Deactivated(docs, ids, n) ==
    [k \in DOMAIN docs |->
        IF \E i \in 1 .. n : ids[i] = k THEN [docs[k] EXCEPT !.is_active = FALSE]
        ELSE docs[k]]

\* the documents of `docs` without those whose ids are the first n entries of `ids`
Deleted(docs, ids, n) ==
    [k \in DOMAIN docs \ {ids[i] : i \in 1 .. n} |-> docs[k]]

\* mutant: the expiry check left out, every record flagged active is returned
get_active_broadcasts_unchecked(self, t, fail) ==
    IF UsesFirebase(self)
    THEN LET docs == self.cloud.broadcasts
             live == SelectSeq(SortedIds(DOMAIN docs), LAMBDA k : docs[k].is_active)
         IN IF fail = 1 THEN R(self, <<>>, "BackendError", "firebase")
            ELSE R(self, [i \in 1 .. Len(live) |-> docs[live[i]]], "", "firebase")
    ELSE IF self.local_storage.broadcasts = NoAttr
         THEN R(self, <<>>, "", "local")
         ELSE LET docs == self.local_storage.broadcasts
                  live == SelectSeq(SortedIds(DOMAIN docs), LAMBDA k : docs[k].is_active)
              IN R(self, [i \in 1 .. Len(live) |-> docs[live[i]]], "", "local")

\* backend calls of the Firestore path: stream() is call 1, the i-th
\* doc.reference.update is call i + 1
get_active_broadcasts(self, t, fail) ==
    IF UsesFirebase(self)
    THEN LET docs == self.cloud.broadcasts
             ids == SortedIds(DOMAIN docs)
             stale == SelectSeq(ids, LAMBDA k : docs[k].is_active /\ Expired(docs[k], t))
             live == SelectSeq(ids, LAMBDA k : docs[k].is_active /\ ~Expired(docs[k], t))
         IN IF fail = 1
            THEN R(self, <<>>, "BackendError", "firebase")
            ELSE IF fail >= 2 /\ fail - 1 <= Len(stale)
            THEN R([self EXCEPT !.cloud.broadcasts = Deactivated(docs, stale, fail - 2)],
                   <<>>, "BackendError", "firebase")
            ELSE R([self EXCEPT !.cloud.broadcasts = Deactivated(docs, stale, Len(stale))],
                   [i \in 1 .. Len(live) |-> docs[live[i]]], "", "firebase")
    ELSE IF self.local_storage.broadcasts = NoAttr
         THEN R(self, <<>>, "", "local")
         ELSE LET docs == self.local_storage.broadcasts
                  ids == SortedIds(DOMAIN docs)
                  stale == SelectSeq(ids, LAMBDA k : docs[k].is_active /\ Expired(docs[k], t))
                  live == SelectSeq(ids, LAMBDA k : docs[k].is_active /\ ~Expired(docs[k], t))
              IN R([self EXCEPT !.local_storage.broadcasts =
                        Deactivated(docs, stale, Len(stale))],
                   [i \in 1 .. Len(live) |-> docs[live[i]]], "", "local")

\* mutant: only records a read has already deactivated are deleted
cleanup_expired_data_inactive_only(self, t, fail) ==
    IF UsesFirebase(self)
    THEN LET docs == self.cloud.broadcasts
             stale == SelectSeq(SortedIds(DOMAIN docs),
                                LAMBDA k : ~docs[k].is_active /\ Expired(docs[k], t))
         IN IF fail = 1 THEN R(self, None, "BackendError", "firebase")
            ELSE R([self EXCEPT !.cloud.broadcasts = Deleted(docs, stale, Len(stale))],
                   None, "", "firebase")
    ELSE R(self, None, "", "local")

\* backend calls of the Firestore path: stream() is call 1, the i-th
\* doc.reference.delete is call i + 1; the method returns None
cleanup_expired_data(self, t, fail) ==
    IF UsesFirebase(self)
    THEN LET docs == self.cloud.broadcasts
             ids == SortedIds(DOMAIN docs)
             stale == SelectSeq(ids, LAMBDA k : Expired(docs[k], t))
         IN IF fail = 1
            THEN R(self, None, "BackendError", "firebase")
            ELSE IF fail >= 2 /\ fail - 1 <= Len(stale)
            THEN R([self EXCEPT !.cloud.broadcasts = Deleted(docs, stale, fail - 2)],
                   None, "BackendError", "firebase")
            ELSE R([self EXCEPT !.cloud.broadcasts = Deleted(docs, stale, Len(stale))],
                   None, "", "firebase")
    ELSE IF self.local_storage.broadcasts = NoAttr
         THEN R(self, None, "", "local")
         ELSE LET docs == self.local_storage.broadcasts
                  ids == SortedIds(DOMAIN docs)
                  expired_broadcasts == SelectSeq(ids, LAMBDA k : Expired(docs[k], t))
              IN R([self EXCEPT !.local_storage.broadcasts =
                        Deleted(docs, expired_broadcasts, Len(expired_broadcasts))],
                   None, "", "local")

----------------------------------------------------------------------------
(* Inputs *)

ADMIN_USER_ID == 123456789

UserIds == {1, 2}
Fails == 0 .. MaxFail

\* the users saved: they joined when the process started; one has a username,
\* the other none
Users(t) ==
    {User(i, IF i = 1 THEN "bob" ELSE None, None, None, "en", StartTime, a, t) :
        i \in UserIds, a \in BOOLEAN}

OneUser(t) == {User(1, "bob", None, None, "en", t, TRUE, t)}

Songs(t) == {Song(0, "A", "s1", 0, t), Song(0, "B", "s1", 0, t)}

OneSong(t) == {Song(0, "A", "s1", 0, t)}

StatNames == {"total_users", "plays", "last_updated"}

\* documents an earlier process left in the Firestore broadcasts collection:
\* sent at clock reading s with lifetime h hours, as save_broadcast_message
\* lays them out; the first has expired before this process starts and may
\* already have been deactivated by a read
PreDoc(s, h, active) ==
    [id |-> BroadcastId(s), message |-> "old", duration_hours |-> h,
     sent_by |-> ADMIN_USER_ID, sent_at |-> isoformat(s),
     expires_at |-> IF h > 0 THEN isoformat(s + h * TicksPerHour) ELSE None,
     is_active |-> active]

PreBroadcasts ==
    {[k \in {BroadcastId(s) : s \in S} |->
         LET s == IdTime(k)
         IN IF s = 0 THEN PreDoc(0, 1, a) ELSE IF s = 1 THEN PreDoc(1, 0, TRUE)
            ELSE PreDoc(2, 1, TRUE)] :
        S \in SUBSET {0, 1, 2}, a \in BOOLEAN}

----------------------------------------------------------------------------
(* The state machine *)

\* the broadcast records of the backend the instance uses
Broadcasts(self) ==
    IF UsesFirebase(self) THEN self.cloud.broadcasts
    ELSE IF self.local_storage.broadcasts = NoAttr THEN EmptyMap
    ELSE self.local_storage.broadcasts

Seen(self, e) ==
    [stored |-> e.stored \cup DOMAIN Broadcasts(self),
     inactive |-> e.inactive \cup
                    {k \in DOMAIN Broadcasts(self) : ~Broadcasts(self)[k].is_active}]

NothingSeen == [stored |-> {}, inactive |-> {}]

\* no bot and no downloader are running
NoFront == bot = NoAttr /\ dl = NoAttr /\ ev = NoAttr /\ host = NoAttr

InitRet(available, init_ok, self) ==
    [op |-> "__init__", args |-> [available |-> available, init_ok |-> init_ok],
     at |-> StartTime, result |-> None, raised |-> FALSE, exc |-> "",
     backend |-> IF UsesFirebase(self) THEN "firebase" ELSE "local",
     again |-> FALSE]

\* construction over an empty Firestore database
Init ==
    /\ now = StartTime
    /\ \E available \in BOOLEAN, init_ok \in BOOLEAN :
          /\ svc = FirebaseService(available, init_ok, EmptyCloud, StartTime)
          /\ ret = InitRet(available, init_ok, svc)
    /\ twin = NoAttr
    /\ twin_ret = NoAttr
    /\ NoFront
    /\ ever = Seen(svc, NothingSeen)

\* a call of method `op` with arguments `args` and outcome r
Call(op, args, r) ==
    /\ svc' = r.self
    /\ ever' = Seen(r.self, ever)
    /\ ret' = [op |-> op, args |-> args, at |-> now, result |-> r.ret,
               raised |-> r.exc # "", exc |-> r.exc, backend |-> r.backend,
               again |-> (ret.op = op /\ ret.args = args /\ ~ret.raised)]
    /\ UNCHANGED <<now, twin, twin_ret, front>>

SaveUser(U) ==
    \E user \in U, fail \in Fails :
        Call("save_user", [user |-> user], save_user(svc, user, now, fail))

GetUser ==
    \E user_id \in UserIds, fail \in Fails :
        Call("get_user", [user_id |-> user_id], get_user(svc, user_id, now, fail))

UpdateUserLanguage ==
    \E user_id \in UserIds, fail \in Fails :
        Call("update_user_language", [user_id |-> user_id, language |-> "fa"],
             update_user_language(svc, user_id, "fa", now, fail))

SaveSong(S) ==
    \E song \in S, fail \in Fails :
        Call("save_song", [song |-> song], save_song(svc, song, now, fail))

GetStatistics ==
    \E fail \in Fails :
        Call("get_statistics", <<>>, get_statistics(svc, now, fail))

\* the value `stat_name` counts to in the statistics the call will read
Counted(self, stat_name) ==
    LET stats == IF UsesFirebase(self)
                 THEN IF "bot_stats" \in DOMAIN self.cloud.statistics
                      THEN self.cloud.statistics["bot_stats"] ELSE ZeroStats(0)
                 ELSE self.local_storage.statistics
    IN IF stat_name \in DOMAIN stats /\ stat_name # "last_updated"
       THEN stats[stat_name] ELSE 0

IncrementStat(N) ==
    \E stat_name \in N, fail \in Fails :
        /\ Counted(svc, stat_name) < MaxCount
        /\ Call("increment_stat", [stat_name |-> stat_name],
                increment_stat(svc, stat_name, now, fail))

SaveBroadcast ==
    \E duration_hours \in 0 .. MaxHours, fail \in Fails :
        Call("save_broadcast_message",
             [message |-> "m", duration_hours |-> duration_hours,
              sent_by |-> ADMIN_USER_ID],
             save_broadcast_message(svc, "m", duration_hours, ADMIN_USER_ID, now, fail))

GetActiveBroadcasts ==
    \E fail \in Fails :
        Call("get_active_broadcasts", <<>>, get_active_broadcasts(svc, now, fail))

CleanupExpired ==
    \E fail \in Fails :
        Call("cleanup_expired_data", <<>>, cleanup_expired_data(svc, now, fail))

Tick(last) ==
    /\ now < last
    /\ now' = now + 1
    /\ UNCHANGED <<svc, ret, twin, twin_ret, ever, front>>

\* the Record Store under any sequence of calls
Next ==
    \/ SaveUser(Users(now))
    \/ GetUser
    \/ UpdateUserLanguage
    \/ SaveSong(Songs(now))
    \/ GetStatistics
    \/ IncrementStat(StatNames)
    \/ SaveBroadcast
    \/ GetActiveBroadcasts
    \/ CleanupExpired

Spec == Init /\ [][Next]_vars

----------------------------------------------------------------------------
(* The Record Store with its two remaining reads, under failing backend calls *)

GetAllUsers ==
    \E fail \in Fails :
        Call("get_all_users", <<>>, get_all_users(svc, now, fail))

SongIds == {"s1", "0"}

GetSong ==
    \E song_id \in SongIds, fail \in Fails :
        Call("get_song", [song_id |-> song_id], get_song(svc, song_id, now, fail))

NextStore ==
    \/ Next
    \/ GetAllUsers
    \/ GetSong

SpecStore == Init /\ [][NextStore]_vars

----------------------------------------------------------------------------
(* Songs with and without an identifier of the recognition service           *)

\* songs as Song(title=..., shazam_id=...) builds them: id is left at its
\* default 0; two of them carry no shazam_id
KeylessSongs(t) ==
    {Song(0, "A", "", 0, t), Song(0, "B", "", 0, t), Song(0, "A", "s1", 0, t)}

NextSongs ==
    \/ SaveSong(KeylessSongs(now))
    \/ GetSong

SpecSongs == Init /\ [][NextSongs]_vars

\* what the except handler of each method returns
Sentinel(op, t) ==
    CASE op \in {"save_user", "update_user_language", "save_song", "increment_stat"}
             -> FALSE
      [] op = "get_user" -> NoUser
      [] op = "get_song" -> NoSong
      [] op \in {"get_all_users", "get_active_broadcasts"} -> <<>>
      [] op = "get_statistics" -> ZeroStats(t)
      [] op = "save_broadcast_message" -> ""
      [] op = "cleanup_expired_data" -> None

----------------------------------------------------------------------------
(* Users and songs over time: saves, reads and language updates while the    *)
(* clock advances                                                            *)

NextUpsert ==
    \/ SaveUser(Users(now))
    \/ GetUser
    \/ UpdateUserLanguage
    \/ SaveSong(Songs(now))
    \/ Tick(MaxClock)

SpecUpsert == Init /\ [][NextUpsert]_vars

----------------------------------------------------------------------------
(* Broadcast messages over time: the clock advances between calls, and the   *)
(* Firestore broadcasts collection may hold documents of an earlier process  *)

InitBroadcast ==
    /\ now = StartTime
    /\ \/ \E pre \in PreBroadcasts :
            /\ svc = FirebaseService(TRUE, TRUE,
                                     [EmptyCloud EXCEPT !.broadcasts = pre], StartTime)
            /\ ret = InitRet(TRUE, TRUE, svc)
       \/ /\ svc = FirebaseService(FALSE, FALSE, EmptyCloud, StartTime)
          /\ ret = InitRet(FALSE, FALSE, svc)
    /\ twin = NoAttr
    /\ twin_ret = NoAttr
    /\ NoFront
    /\ ever = Seen(svc, NothingSeen)

NextBroadcast ==
    \/ SaveBroadcast
    \/ GetActiveBroadcasts
    \/ CleanupExpired
    \/ Tick(MaxClock)
    \/ SaveUser(OneUser(StartTime))
    \/ SaveSong(OneSong(now))

SpecBroadcast == InitBroadcast /\ [][NextBroadcast]_vars

----------------------------------------------------------------------------
(* The two backends side by side: the same calls, none of which fails, on a  *)
(* Firestore-backed instance over an empty database and on an in-process one *)

InitTwin ==
    /\ now = StartTime
    /\ svc = FirebaseService(TRUE, TRUE, EmptyCloud, StartTime)
    /\ twin = FirebaseService(FALSE, FALSE, EmptyCloud, StartTime)
    /\ ret = InitRet(TRUE, TRUE, svc)
    /\ twin_ret = InitRet(FALSE, FALSE, twin)
    /\ NoFront
    /\ ever = NothingSeen

TwinCall(op, args, r, r2) ==
    /\ svc' = r.self
    /\ twin' = r2.self
    /\ ret' = [op |-> op, args |-> args, at |-> now, result |-> r.ret,
               raised |-> r.exc # "", exc |-> r.exc, backend |-> r.backend,
               again |-> (ret.op = op /\ ret.args = args /\ ~ret.raised)]
    /\ twin_ret' = [op |-> op, args |-> args, at |-> now, result |-> r2.ret,
                    raised |-> r2.exc # "", exc |-> r2.exc, backend |-> r2.backend,
                    again |-> (twin_ret.op = op /\ twin_ret.args = args
                               /\ ~twin_ret.raised)]
    /\ UNCHANGED <<now, ever, front>>

TwinSaveUser ==
    \E user \in Users(now) :
        TwinCall("save_user", [user |-> user],
                 save_user(svc, user, now, 0), save_user(twin, user, now, 0))

TwinUpdateUserLanguage ==
    \E user_id \in UserIds :
        TwinCall("update_user_language", [user_id |-> user_id, language |-> "fa"],
                 update_user_language(svc, user_id, "fa", now, 0),
                 update_user_language(twin, user_id, "fa", now, 0))

TwinSaveSong ==
    \E song \in Songs(now) :
        TwinCall("save_song", [song |-> song],
                 save_song(svc, song, now, 0), save_song(twin, song, now, 0))

TwinIncrementStat ==
    \E stat_name \in {"songs_recognized", "songs_downloaded"} :
        /\ Counted(svc, stat_name) < MaxCount
        /\ Counted(twin, stat_name) < MaxCount
        /\ TwinCall("increment_stat", [stat_name |-> stat_name],
                    increment_stat(svc, stat_name, now, 0),
                    increment_stat(twin, stat_name, now, 0))

TwinGetStatistics ==
    TwinCall("get_statistics", <<>>,
             get_statistics(svc, now, 0), get_statistics(twin, now, 0))

NextTwin ==
    \/ TwinSaveUser
    \/ TwinUpdateUserLanguage
    \/ TwinSaveSong
    \/ TwinIncrementStat
    \/ TwinGetStatistics

SpecTwin == InitTwin /\ [][NextTwin]_vars

----------------------------------------------------------------------------
(* Texts and URLs.  A text is a sequence of tokens and a domain fragment is  *)
(* one token, so `fragment in text` is the occurrence of the token.          *)

\* config.SOCIAL_MEDIA_PLATFORMS, in the order of the dictionary
SOCIAL_MEDIA_PLATFORMS ==
    << [platform |-> "youtube", fragments |-> <<"youtube.com", "youtu.be">>],
       [platform |-> "instagram", fragments |-> <<"instagram.com", "instagr.am">>],
       [platform |-> "tiktok", fragments |-> <<"tiktok.com">>],
       [platform |-> "pinterest", fragments |-> <<"pinterest.com", "pin.it">>],
       [platform |-> "soundcloud", fragments |-> <<"soundcloud.com">>] >>

Fragments ==
    UNION {{SOCIAL_MEDIA_PLATFORMS[p].fragments[i] :
                i \in DOMAIN SOCIAL_MEDIA_PLATFORMS[p].fragments} :
           p \in DOMAIN SOCIAL_MEDIA_PLATFORMS}

\* the tokens texts are made of: the fragments, two of them in capitals, a
\* domain of no platform, an Instagram post path, a word and a number
Tokens == Fragments \cup {"YouTube.com", "PIN.IT", "example.com", "/p/abc", "hello", "2"}

Texts == UNION {[1 .. n -> Tokens] : n \in 1 .. MaxLen}

\* str.lower()
lower(text) ==
    [i \in DOMAIN text |->
        CASE text[i] = "YouTube.com" -> "youtube.com"
          [] text[i] = "PIN.IT" -> "pin.it"
          [] OTHER -> text[i]]

\* `fragment in text`
In(fragment, text) == \E i \in DOMAIN text : text[i] = fragment

\* the classifier matching the URL as given, without lower()
_get_platform_from_url_cased(url) ==
    IF In("youtube.com", url) \/ In("youtu.be", url) THEN "youtube"
    ELSE IF In("instagram.com", url) \/ In("instagr.am", url) THEN "instagram"
    ELSE IF In("tiktok.com", url) THEN "tiktok"
    ELSE IF In("pinterest.com", url) \/ In("pin.it", url) THEN "pinterest"
    ELSE IF In("soundcloud.com", url) THEN "soundcloud"
    ELSE None

\* Downloader._get_platform_from_url
_get_platform_from_url(url) ==
    LET url_lower == lower(url)
    IN IF In("youtube.com", url_lower) \/ In("youtu.be", url_lower) THEN "youtube"
       ELSE IF In("instagram.com", url_lower) \/ In("instagr.am", url_lower)
       THEN "instagram"
       ELSE IF In("tiktok.com", url_lower) THEN "tiktok"
       ELSE IF In("pinterest.com", url_lower) \/ In("pin.it", url_lower)
       THEN "pinterest"
       ELSE IF In("soundcloud.com", url_lower) THEN "soundcloud"
       ELSE None

\* utils.helpers.get_platform_from_url
get_platform_from_url(url) ==
    LET url_lower == lower(url)
    IN IF In("youtube.com", url_lower) \/ In("youtu.be", url_lower) THEN "youtube"
       ELSE IF In("instagram.com", url_lower) \/ In("instagr.am", url_lower)
       THEN "instagram"
       ELSE IF In("tiktok.com", url_lower) THEN "tiktok"
       ELSE IF In("pinterest.com", url_lower) \/ In("pin.it", url_lower)
       THEN "pinterest"
       ELSE IF In("soundcloud.com", url_lower) THEN "soundcloud"
       ELSE None

----------------------------------------------------------------------------
(* Downloader *)

\* a file path: os.path.splitext(path) is <<path.stem, path.ext>>
Path(stem, ext) == [stem |-> stem, ext |-> ext]

\* a download returning None
NoPath == Path("", "")

\* the containers an audio fetch may deliver, and the one a video fetch delivers
Containers == {".webm", ".m4a", ".opus", ".mp3"}
VideoContainer == ".mp4"

\* Downloader.__init__: ffmpeg_available is what setup_ffmpeg() reports; the
\* downloads directory starts empty
Downloader(ffmpeg_available) ==
    [ffmpeg_available |-> ffmpeg_available,
     ydl_opts |-> IF ffmpeg_available
                  THEN [format |-> "bestaudio/best",
                        postprocessors |-> <<"FFmpegExtractAudio">>]
                  ELSE [format |-> "bestaudio[ext=mp3]/bestaudio[ext=m4a]/bestaudio/best",
                        postprocessors |-> <<>>],
     files |-> {}]

\* what the network and the extractors do during one call
Net == [fail : BOOLEAN, hits : 0 .. 1, ext : Containers, is_video : BOOLEAN,
        status_code : {200, 404}]

\* yt_dlp.YoutubeDL(opts): extract_info(url, download=True) and
\* prepare_filename(info).  The file is written under `stem` in the container
\* the site delivers; a queued FFmpegExtractAudio step then replaces it by the
\* .mp3 next to it, and raises when the native tool is missing.
\* prepare_filename names the container delivered, not the converted file.
YoutubeDL(self, opts, stem, net) ==
    LET container == IF opts.format = "best" THEN VideoContainer ELSE net.ext
        original == Path(stem, container)
        written == self.files \cup {original}
    IN IF net.fail
       THEN [files |-> self.files, exc |-> "DownloadError", filename |-> NoPath]
       ELSE IF opts.postprocessors = <<>>
       THEN [files |-> written, exc |-> "", filename |-> original]
       ELSE IF ~self.ffmpeg_available
       THEN [files |-> written, exc |-> "PostProcessingError", filename |-> NoPath]
       ELSE [files |-> (written \ {original}) \cup {Path(stem, ".mp3")},
             exc |-> "", filename |-> original]

\* one entry of the log of fetches: the adapter, the options it passed, the
\* file name the fetch gave for the download (NoPath when it gave none)
Fetch(adapter, opts, filename) ==
    [adapter |-> adapter, format |-> opts.format,
     postprocessors |-> opts.postprocessors, filename |-> filename]

\* a handler that raises the exception again instead of returning None
A_reraising(self, value, exc, fetches) ==
    [self |-> self, ret |-> value, exc |-> exc, fetches |-> fetches, raised |-> exc]

\* what a method of the Downloader hands back: the instance (with the files
\* on disk), the path returned, the exception its `except Exception` handler
\* caught, the fetches it issued, and the exception raised to the caller: the
\* handler logs the exception and returns None, so none is
A(self, value, exc, fetches) ==
    [self |-> self, ret |-> value, exc |-> exc, fetches |-> fetches, raised |-> ""]

\* the tail shared by the yt-dlp adapters that look for a converted file:
\* downloaded_file.endswith(('.webm', '.m4a')) and the .mp3 next to it
ConvertedOrOriginal(self, y, fetches) ==
    LET downloaded_file == y.filename
        mp3_file == Path(downloaded_file.stem, ".mp3")
        after == [self EXCEPT !.files = y.files]
    IN IF y.exc # "" THEN A(after, NoPath, y.exc, fetches)
       ELSE IF downloaded_file.ext \in {".webm", ".m4a"} /\ mp3_file \in y.files
       THEN A(after, mp3_file, "", fetches)
       ELSE IF downloaded_file \in y.files THEN A(after, downloaded_file, "", fetches)
       ELSE A(after, NoPath, "", fetches)

\* the tail of the adapters that return the file only when it exists
OriginalIfExists(self, y, fetches) ==
    LET after == [self EXCEPT !.files = y.files]
    IN IF y.exc # "" THEN A(after, NoPath, y.exc, fetches)
       ELSE IF y.filename \in y.files THEN A(after, y.filename, "", fetches)
       ELSE A(after, NoPath, "", fetches)

_download_from_youtube(self, url, net) ==
    LET y == YoutubeDL(self, self.ydl_opts, "downloads/T", net)
    IN ConvertedOrOriginal(self, y, <<Fetch("youtube", self.ydl_opts, y.filename)>>)

\* the patterns are matched on the URL as given (no lower()): a domain followed
\* by a post path
_extract_instagram_shortcode(url) ==
    IF \E i \in DOMAIN url : /\ url[i] \in {"instagram.com", "instagr.am"}
                             /\ i + 1 \in DOMAIN url
                             /\ url[i + 1] = "/p/abc"
    THEN "abc" ELSE None

_download_from_instagram(self, url, net) ==
    LET shortcode == _extract_instagram_shortcode(url)
        opts == [format |-> "requests.get", postprocessors |-> <<>>]
        filename == Path("downloads/instagram_" \o shortcode,
                         IF net.is_video THEN ".mp4" ELSE ".jpg")
    IN IF shortcode = None THEN A(self, NoPath, "", <<>>)
       ELSE IF net.fail THEN A(self, NoPath, "ConnectionException", <<>>)
       ELSE IF net.status_code = 200
       THEN A([self EXCEPT !.files = @ \cup {filename}], filename, "",
              <<Fetch("instagram", opts, filename)>>)
       ELSE A(self, NoPath, "", <<Fetch("instagram", opts, NoPath)>>)

_download_from_tiktok(self, url, net) ==
    LET tiktok_opts == [format |-> "best", postprocessors |-> <<>>]
        y == YoutubeDL(self, tiktok_opts, "downloads/tiktok_1", net)
    IN OriginalIfExists(self, y, <<Fetch("tiktok", tiktok_opts, y.filename)>>)

_download_from_pinterest(self, url, net) ==
    LET pinterest_opts == [format |-> "best", postprocessors |-> <<>>]
        y == YoutubeDL(self, pinterest_opts, "downloads/pinterest_1", net)
    IN OriginalIfExists(self, y, <<Fetch("pinterest", pinterest_opts, y.filename)>>)

\* soundcloud_opts are the same whatever self.ffmpeg_available is
_download_from_soundcloud(self, url, net) ==
    LET soundcloud_opts == [format |-> "bestaudio/best",
                            postprocessors |-> <<"FFmpegExtractAudio">>]
        y == YoutubeDL(self, soundcloud_opts, "downloads/soundcloud_T", net)
    IN ConvertedOrOriginal(self, y, <<Fetch("soundcloud", soundcloud_opts, y.filename)>>)

\* what download_from_url and download_song hand back: the adapters invoked are
\* listed too
D(a, invoked) ==
    [self |-> a.self, ret |-> a.ret, exc |-> a.exc, fetches |-> a.fetches,
     raised |-> a.raised, invoked |-> invoked]

\* `return await self._download_from_...(url)` inside try: what the adapter
\* returns is returned, what it raises is caught by `except Exception`
Awaited(a) == IF a.raised # "" THEN A(a.self, NoPath, a.raised, a.fetches) ELSE a

\* download_from_url going on to the SoundCloud adapter when the YouTube adapter
\* has returned None
download_from_url_retrying(self, url, net) ==
    LET platform == _get_platform_from_url(url)
        first == Awaited(_download_from_youtube(self, url, net))
        second == Awaited(_download_from_soundcloud(first.self, url, net))
    IN CASE platform = "youtube" ->
                IF first.ret # NoPath THEN D(first, <<"youtube">>)
                ELSE D(A(second.self, second.ret, second.exc,
                         first.fetches \o second.fetches),
                       <<"youtube", "soundcloud">>)
         [] platform = "instagram" ->
                D(Awaited(_download_from_instagram(self, url, net)), <<"instagram">>)
         [] platform = "tiktok" ->
                D(Awaited(_download_from_tiktok(self, url, net)), <<"tiktok">>)
         [] platform = "pinterest" ->
                D(Awaited(_download_from_pinterest(self, url, net)), <<"pinterest">>)
         [] platform = "soundcloud" ->
                D(Awaited(_download_from_soundcloud(self, url, net)), <<"soundcloud">>)
         [] OTHER -> D(A(self, NoPath, "", <<>>), <<>>)

download_from_url(self, url, net) ==
    LET platform == _get_platform_from_url(url)
    IN CASE platform = "youtube" ->
                D(Awaited(_download_from_youtube(self, url, net)), <<"youtube">>)
         [] platform = "instagram" ->
                D(Awaited(_download_from_instagram(self, url, net)), <<"instagram">>)
         [] platform = "tiktok" ->
                D(Awaited(_download_from_tiktok(self, url, net)), <<"tiktok">>)
         [] platform = "pinterest" ->
                D(Awaited(_download_from_pinterest(self, url, net)), <<"pinterest">>)
         [] platform = "soundcloud" ->
                D(Awaited(_download_from_soundcloud(self, url, net)), <<"soundcloud">>)
         [] OTHER -> D(A(self, NoPath, "", <<>>), <<>>)

\* the search fetch: ['entries'][0] raises IndexError on an empty result
download_song(self, query, net) ==
    LET search_opts == self.ydl_opts
        y == YoutubeDL(self, search_opts, "downloads/T", net)
        fetches == <<Fetch("search", search_opts,
                           IF ~net.fail /\ net.hits = 0 THEN NoPath ELSE y.filename)>>
        after == [self EXCEPT !.files = y.files]
        downloaded_file == y.filename
        found == SelectSeq(<<".mp3", ".m4a", ".webm", ".opus">>,
                           LAMBDA ext : Path(downloaded_file.stem, ext) \in y.files)
    IN IF ~net.fail /\ net.hits = 0
       THEN D(A(self, NoPath, "IndexError", fetches), <<"search">>)
       ELSE IF y.exc # "" THEN D(A(after, NoPath, y.exc, fetches), <<"search">>)
       ELSE IF downloaded_file \in y.files
       THEN D(A(after, downloaded_file, "", fetches), <<"search">>)
       ELSE IF found # <<>>
       THEN D(A(after, Path(downloaded_file.stem, found[1]), "", fetches), <<"search">>)
       ELSE D(A(after, NoPath, "", fetches), <<"search">>)

----------------------------------------------------------------------------
(* The Downloader under any sequence of calls *)

\* the URLs handed to download_from_url: one or two per platform, one of no
\* platform
DownloadUrls ==
    {<<"youtube.com">>, <<"YouTube.com">>, <<"instagram.com", "/p/abc">>,
     <<"instagr.am">>, <<"tiktok.com">>, <<"pin.it">>, <<"soundcloud.com">>,
     <<"example.com">>}

InitDownloader ==
    /\ now = StartTime
    /\ svc = NoAttr
    /\ ret = NoAttr
    /\ twin = NoAttr
    /\ twin_ret = NoAttr
    /\ ever = NothingSeen
    /\ bot = NoAttr
    /\ host = NoAttr
    /\ \E ffmpeg_available \in BOOLEAN : dl = Downloader(ffmpeg_available)
    /\ ev = [op |-> "__init__"]

\* a call of the downloader with outcome d
Download(op, arg, d) ==
    /\ Cardinality(dl.files) < MaxFiles
    /\ dl' = d.self
    /\ ev' = [op |-> op, arg |-> arg, result |-> d.ret, exc |-> d.exc,
              raised |-> d.raised, invoked |-> d.invoked, fetches |-> d.fetches]
    /\ UNCHANGED <<svc, now, ret, twin, twin_ret, ever, bot, host>>

DownloadFromUrl ==
    \E url \in DownloadUrls, net \in Net :
        Download("download_from_url", url, download_from_url(dl, url, net))

DownloadSong ==
    \E net \in Net :
        Download("download_song", <<"hello">>, download_song(dl, <<"hello">>, net))

NextDownloader ==
    \/ DownloadFromUrl
    \/ DownloadSong

SpecDownloader == InitDownloader /\ [][NextDownloader]_vars

----------------------------------------------------------------------------
(* The classifiers applied to every text *)

InitClassify ==
    /\ now = StartTime
    /\ svc = NoAttr
    /\ ret = NoAttr
    /\ twin = NoAttr
    /\ twin_ret = NoAttr
    /\ ever = NothingSeen
    /\ bot = NoAttr
    /\ dl = NoAttr
    /\ host = NoAttr
    /\ \E url \in Texts : ev = [op |-> "url", arg |-> url]

Classify ==
    /\ ev.op = "url"
    /\ ev' = [op |-> "classify", arg |-> ev.arg,
              result |-> _get_platform_from_url(ev.arg),
              helper |-> get_platform_from_url(ev.arg)]
    /\ UNCHANGED <<svc, now, ret, twin, twin_ret, ever, bot, dl, host>>

NextClassify == Classify

SpecClassify == InitClassify /\ [][NextClassify]_vars

----------------------------------------------------------------------------
(* MusicBot (bot.py).  The Application is built without concurrent_updates,  *)
(* so updates are handled one at a time and a handler is one step.           *)

EDIT_SONG_WAITING_FOR_FILE == 1
EDIT_SONG_WAITING_FOR_INFO == 2
BROADCAST_WAITING_FOR_MESSAGE == 3
BROADCAST_WAITING_FOR_DURATION == 4

AUDIO_FORMATS == {".mp3", ".m4a", ".wav", ".ogg", ".flac", ".aac"}

\* utils.helpers.is_admin
is_admin(user_id) == user_id = ADMIN_USER_ID

\* MusicBot.__init__; user_data is context.user_data, one dictionary per user
MusicBot(users) ==
    [user_languages |-> EmptyMap, user_states |-> EmptyMap,
     user_data |-> [u \in users |-> EmptyMap]]

\* self.user_states.get(user_id)
StateOf(self, user_id) ==
    IF user_id \in DOMAIN self.user_states THEN self.user_states[user_id] ELSE 0

get_user_language(self, user_id) ==
    IF user_id \in DOMAIN self.user_languages THEN self.user_languages[user_id]
    ELSE "en"

\* int(text): the number a text spells, or the ValueError int() raises
int(text) ==
    IF text = <<"2">> THEN [value |-> 2, exc |-> ""]
    ELSE [value |-> 0, exc |-> "ValueError"]

\* what handling an update did besides changing state: the exception that left
\* the handler, whether the user was sent an error reply, the URL handed to
\* download_from_url, the chats a broadcast was sent to
Out(raised, failed, handed, delivered) ==
    [raised |-> raised, failed |-> failed, handed |-> handed, delivered |-> delivered,
     text |-> <<>>]

Quiet == Out("", FALSE, <<>>, {})

\* what a handler hands back: the bot, the record store, the downloader
B(self, store, loader, out) ==
    [bot |-> self, svc |-> store, dl |-> loader, out |-> out]

start_command(self, store, loader, user_id, t) ==
    LET user == User(user_id, None, None, None, get_user_language(self, user_id),
                     t, TRUE, t)
    IN B(self, save_user(store, user, t, 0).self, loader, Quiet)

\* mutant: the command is open to every user
broadcast_command_open(self, store, loader, user_id) ==
    B([self EXCEPT !.user_states = Put(@, user_id, BROADCAST_WAITING_FOR_MESSAGE)],
      store, loader, Quiet)

broadcast_command(self, store, loader, user_id) ==
    IF ~is_admin(user_id) THEN B(self, store, loader, Quiet)
    ELSE B([self EXCEPT !.user_states = Put(@, user_id, BROADCAST_WAITING_FOR_MESSAGE)],
           store, loader, Quiet)

\* the languages config.BOT_MESSAGES has texts in
BOT_MESSAGES == {"en", "fa"}

\* the callback data of the model that start with 'lang_', and
\* data.split('_')[1] of each
LangData == {"lang_en", "lang_fa", "lang_de"}

startswith_lang(data) == data \in LangData

split_1(data) ==
    CASE data = "lang_en" -> "en"
      [] data = "lang_fa" -> "fa"
      [] data = "lang_de" -> "de"

\* help_command, statistics_command and language_command reply through
\* update.message, which a callback-query update does not carry
handle_callback_query(self, store, loader, user_id, data, t) ==
    CASE startswith_lang(data) ->
             LET lang == split_1(data)
             IN B([self EXCEPT !.user_languages = Put(@, user_id, lang)],
                  update_user_language(store, user_id, lang, t, 0).self, loader,
                  Out(IF lang \in BOT_MESSAGES THEN "AttributeError" ELSE "KeyError",
                      FALSE, <<>>, {}))
      [] data = "main_menu" ->
             B(self, store, loader, Out("AttributeError", FALSE, <<>>, {}))
      [] data = "edit_song" ->
             B([self EXCEPT !.user_states = Put(@, user_id, EDIT_SONG_WAITING_FOR_FILE)],
               store, loader, Quiet)
      [] OTHER -> B(self, store, loader, Quiet)

\* file_ok: get_file and download_to_drive succeed; found: Shazam recognises the
\* song; net: what the download meets
handle_audio_message(self, store, loader, user_id, kind, file_ok, found, net, t) ==
    IF StateOf(self, user_id) = EDIT_SONG_WAITING_FOR_FILE
    THEN LET waiting == [self EXCEPT !.user_states =
                             Put(@, user_id, EDIT_SONG_WAITING_FOR_INFO)]
         IN IF kind \in {"audio", "voice"}
            THEN B([waiting EXCEPT !.user_data[user_id] = Put(@, "edit_file_id", "f1")],
                   store, loader, Quiet)
            ELSE B(waiting, store, loader, Out("AttributeError", TRUE, <<>>, {}))
    ELSE IF ~file_ok THEN B(self, store, loader, Out("", TRUE, <<>>, {}))
    ELSE IF ~found THEN B(self, store, loader, Quiet)
    ELSE LET recognized == increment_stat(store, "songs_recognized", t, 0).self
             d == download_song(loader, <<"hello">>, net)
         IN IF d.ret # NoPath
            THEN B(self, increment_stat(recognized, "songs_downloaded", t, 0).self,
                   d.self, Quiet)
            ELSE B(self, recognized, d.self, Quiet)

\* mutant: finishing an edit clears the conversation states of all users
handle_song_edit_clearing(self, store, loader, user_id, text) ==
    IF "edit_file_id" \notin DOMAIN self.user_data[user_id]
    THEN B(self, store, loader, Out("", TRUE, <<>>, {}))
    ELSE B([self EXCEPT !.user_states = EmptyMap,
                        !.user_data[user_id] = Del(@, "edit_file_id")],
           store, loader, Quiet)

handle_song_edit(self, store, loader, user_id, text) ==
    IF "edit_file_id" \notin DOMAIN self.user_data[user_id]
    THEN B(self, store, loader, Out("", TRUE, <<>>, {}))
    ELSE B([self EXCEPT !.user_states = Del(@, user_id),
                        !.user_data[user_id] = Del(@, "edit_file_id")],
           store, loader, Quiet)

RECURSIVE Ids(_)
Ids(users) == IF users = <<>> THEN {} ELSE {Head(users).id} \cup Ids(Tail(users))

\* mutant: the pending message is kept after the delivery
handle_broadcast_keeping(self, store, loader, user_id, text, t) ==
    LET duration_hours == int(text)
        users == get_all_users(store, t, 0).ret
    IN IF duration_hours.exc # ""
       THEN B(self, store, loader, Out("", TRUE, <<>>, {}))
       ELSE IF "broadcast_message" \notin DOMAIN self.user_data[user_id]
       THEN B(self, store, loader, Out("", TRUE, <<>>, {}))
       ELSE B([self EXCEPT !.user_states = Del(@, user_id)],
              store, loader,
              [Out("", FALSE, <<>>, Ids(users)) EXCEPT
                  !.text = self.user_data[user_id]["broadcast_message"]])

\* the text of the Out is the message sent to every user of get_all_users
handle_broadcast(self, store, loader, user_id, text, t) ==
    LET duration_hours == int(text)
        users == get_all_users(store, t, 0).ret
    IN IF duration_hours.exc # ""
       THEN B(self, store, loader, Out("", TRUE, <<>>, {}))
       ELSE IF "broadcast_message" \notin DOMAIN self.user_data[user_id]
       THEN B(self, store, loader, Out("", TRUE, <<>>, {}))
       ELSE B([self EXCEPT !.user_states = Del(@, user_id),
                           !.user_data[user_id] = Del(@, "broadcast_message")],
              store, loader,
              [Out("", FALSE, <<>>, Ids(users)) EXCEPT
                  !.text = self.user_data[user_id]["broadcast_message"]])

handle_url_download(self, store, loader, user_id, url, found, net, t) ==
    LET d == download_from_url(loader, url, net)
        downloaded_path == d.ret
    IN IF downloaded_path = NoPath
       THEN B(self, store, d.self, Out("", TRUE, url, {}))
       ELSE IF downloaded_path.ext \in AUDIO_FORMATS /\ found
       THEN B(self,
              increment_stat(increment_stat(store, "songs_recognized", t, 0).self,
                             "songs_downloaded", t, 0).self,
              d.self, Out("", FALSE, url, {}))
       ELSE B(self, store, d.self, Out("", FALSE, url, {}))

\* the fragments handle_text_message tests a text for
UrlFragments ==
    {"youtube.com", "youtu.be", "instagram.com", "tiktok.com", "pinterest.com",
     "soundcloud.com"}

handle_text_message(self, store, loader, user_id, text, found, net, t) ==
    IF StateOf(self, user_id) = EDIT_SONG_WAITING_FOR_INFO
    THEN handle_song_edit(self, store, loader, user_id, text)
    ELSE IF StateOf(self, user_id) = BROADCAST_WAITING_FOR_MESSAGE
    THEN B([self EXCEPT !.user_data[user_id] = Put(@, "broadcast_message", text),
                        !.user_states = Put(@, user_id, BROADCAST_WAITING_FOR_DURATION)],
           store, loader, Quiet)
    ELSE IF StateOf(self, user_id) = BROADCAST_WAITING_FOR_DURATION
    THEN handle_broadcast(self, store, loader, user_id, text, t)
    ELSE IF \E platform \in UrlFragments : In(platform, lower(text))
    THEN handle_url_download(self, store, loader, user_id, text, found, net, t)
    ELSE B(self, store, loader, Quiet)

----------------------------------------------------------------------------
(* The bot under any sequence of updates from two users, over the            *)
(* in-process record store                                                   *)

BotUsers == {1, ADMIN_USER_ID}

BotTexts == {<<"hello">>, <<"2">>, <<"youtube.com">>, <<"pin.it">>}

\* a failing fetch, an empty search, a directly playable file
BotNet ==
    {n \in Net : /\ n.is_video /\ n.status_code = 200 /\ n.ext = ".mp3"
                 /\ (n.fail => n.hits = 1)}

FetchOk == CHOOSE n \in BotNet : ~n.fail /\ n.hits = 1

\* what a media message meets: the file cannot be fetched, no song is
\* recognised, a song is recognised and then searched for
AudioOutcomes ==
    {[file_ok |-> FALSE, found |-> FALSE, net |-> FetchOk],
     [file_ok |-> TRUE, found |-> FALSE, net |-> FetchOk]}
    \cup {[file_ok |-> TRUE, found |-> TRUE, net |-> n] : n \in BotNet}

\* what a URL meets: any fetch, and a song recognised in a fetched file
UrlOutcomes ==
    {[found |-> FALSE, net |-> n] : n \in BotNet} \cup {[found |-> TRUE, net |-> FetchOk]}

InitBot ==
    /\ now = StartTime
    /\ svc = FirebaseService(FALSE, FALSE, EmptyCloud, StartTime)
    /\ ret = InitRet(FALSE, FALSE, svc)
    /\ twin = NoAttr
    /\ twin_ret = NoAttr
    /\ ever = NothingSeen
    /\ bot = MusicBot(BotUsers)
    /\ dl = Downloader(TRUE)
    /\ ev = [op |-> "__init__", user_id |-> 0, arg |-> <<>>, out |-> Quiet]
    /\ host = NoAttr

\* the update `op` of user_id handled with outcome b
Handle(op, user_id, arg, b) ==
    /\ Cardinality(b.dl.files) <= MaxFiles
    /\ \A name \in {"songs_recognized", "songs_downloaded"} :
           Counted(b.svc, name) <= MaxSongs
    /\ bot' = b.bot
    /\ svc' = b.svc
    /\ dl' = b.dl
    /\ ev' = [op |-> op, user_id |-> user_id, arg |-> arg, out |-> b.out]
    /\ UNCHANGED <<now, ret, twin, twin_ret, ever, host>>

StartCommand ==
    \E user_id \in BotUsers :
        Handle("start_command", user_id, <<>>, start_command(bot, svc, dl, user_id, now))

BroadcastCommand ==
    \E user_id \in BotUsers :
        Handle("broadcast_command", user_id, <<>>,
               broadcast_command(bot, svc, dl, user_id))

CallbackQuery ==
    \E user_id \in BotUsers, data \in {"main_menu", "edit_song"} :
        Handle("handle_callback_query", user_id, <<>>,
               handle_callback_query(bot, svc, dl, user_id, data, now))

AudioMessage ==
    \E user_id \in BotUsers, kind \in {"audio", "voice", "video", "video_note"},
       o \in AudioOutcomes :
        Handle("handle_audio_message", user_id, <<>>,
               handle_audio_message(bot, svc, dl, user_id, kind, o.file_ok, o.found,
                                    o.net, now))

TextMessage ==
    \E user_id \in BotUsers, text \in BotTexts, o \in UrlOutcomes :
        Handle("handle_text_message", user_id, text,
               handle_text_message(bot, svc, dl, user_id, text, o.found, o.net, now))

NextBot ==
    \/ StartCommand
    \/ BroadcastCommand
    \/ CallbackQuery
    \/ AudioMessage
    \/ TextMessage

SpecBot == InitBot /\ [][NextBot]_vars

\* the button of the language keyboard
LanguageCallback ==
    \E user_id \in BotUsers :
        Handle("handle_callback_query", user_id, <<"lang_fa">>,
               handle_callback_query(bot, svc, dl, user_id, "lang_fa", now))

\* media and text updates in which no song is recognised: what a handler
\* writes to the sessions does not depend on the recognition
UnrecognizedAudio ==
    \E user_id \in BotUsers, kind \in {"audio", "voice", "video", "video_note"},
       o \in {x \in AudioOutcomes : ~x.found} :
        Handle("handle_audio_message", user_id, <<>>,
               handle_audio_message(bot, svc, dl, user_id, kind, o.file_ok, o.found,
                                    o.net, now))

UnrecognizedText ==
    \E user_id \in BotUsers, text \in BotTexts, o \in {x \in UrlOutcomes : ~x.found} :
        Handle("handle_text_message", user_id, text,
               handle_text_message(bot, svc, dl, user_id, text, o.found, o.net, now))

NextSession ==
    \/ StartCommand
    \/ BroadcastCommand
    \/ CallbackQuery
    \/ LanguageCallback
    \/ UnrecognizedAudio
    \/ UnrecognizedText

SpecSession == InitBot /\ [][NextSession]_vars

----------------------------------------------------------------------------
(* utils.helpers.format_duration.  A text is the sequence of its characters. *)

\* str(n) of an integer n >= 0
RECURSIVE Digits(_)
Digits(n) ==
    IF n < 10 THEN <<ToString(n)>> ELSE Digits(n \div 10) \o <<ToString(n % 10)>>

\* f"{n:02d}" of an integer n >= 0
Format02d(n) == IF n < 10 THEN <<"0">> \o Digits(n) ELSE Digits(n)

\* mutant: the seconds are written without padding
format_duration_unpadded(seconds) ==
    IF seconds <= 0 THEN <<"0", ":", "0", "0">>
    ELSE LET minutes0 == seconds \div 60
             seconds1 == seconds % 60
             hours == minutes0 \div 60
             minutes == minutes0 % 60
         IN IF hours > 0
            THEN Digits(hours) \o <<":">> \o Format02d(minutes) \o <<":">>
                     \o Digits(seconds1)
            ELSE Digits(minutes) \o <<":">> \o Digits(seconds1)

\* divmod twice, then one of the two f-strings
format_duration(seconds) ==
    IF seconds <= 0 THEN <<"0", ":", "0", "0">>
    ELSE LET minutes0 == seconds \div 60
             seconds1 == seconds % 60
             hours == minutes0 \div 60
             minutes == minutes0 % 60
         IN IF hours > 0
            THEN Digits(hours) \o <<":">> \o Format02d(minutes) \o <<":">>
                     \o Format02d(seconds1)
            ELSE Digits(minutes) \o <<":">> \o Format02d(seconds1)

InitFormat ==
    /\ now = StartTime
    /\ svc = NoAttr
    /\ ret = NoAttr
    /\ twin = NoAttr
    /\ twin_ret = NoAttr
    /\ ever = NothingSeen
    /\ bot = NoAttr
    /\ dl = NoAttr
    /\ host = NoAttr
    /\ \E seconds \in -2 .. MaxSeconds : ev = [op |-> "input", seconds |-> seconds]

FormatDuration ==
    /\ ev.op = "input"
    /\ ev' = [op |-> "format_duration", seconds |-> ev.seconds,
              result |-> format_duration(ev.seconds)]
    /\ UNCHANGED <<svc, now, ret, twin, twin_ret, ever, bot, dl, host>>

NextFormat == FormatDuration

SpecFormat == InitFormat /\ [][NextFormat]_vars

----------------------------------------------------------------------------
(* The records of the users over time: starts and language choices of two    *)
(* users while the clock advances                                            *)

\* a button of the language keyboard, or a callback whose data names a
\* language the bot has no texts in
LanguageChoice ==
    \E user_id \in BotUsers, data \in LangData :
        Handle("handle_callback_query", user_id, <<data>>,
               handle_callback_query(bot, svc, dl, user_id, data, now))

NextLifecycle ==
    \/ StartCommand
    \/ LanguageChoice
    \/ Tick(MaxClock)

SpecLifecycle == InitBot /\ [][NextLifecycle]_vars

----------------------------------------------------------------------------
(* The capability probe (utils/ffmpeg_manager.py) and the audio extraction   *)
(* that depends on it                                                        *)

\* where a tool is installed on the host: nowhere, on the search path, or only
\* in one of the well-known directories
Places == {"absent", "PATH", "/opt/bin"}

\* FFmpegManager._check_ffmpeg_availability with _try_alternative_paths:
\* subprocess.run raises FileNotFoundError for a tool that is not on the search
\* path, and the handler then looks into the well-known directories; a path
\* found earlier is kept
_check_ffmpeg_availability(self, tools) ==
    LET _try_alternative_paths(m) ==
            [ffmpeg_path |-> IF tools.ffmpeg = "/opt/bin" THEN "/opt/bin/ffmpeg"
                             ELSE m.ffmpeg_path,
             ffprobe_path |-> IF tools.ffprobe = "/opt/bin" THEN "/opt/bin/ffprobe"
                              ELSE m.ffprobe_path]
        found == [self EXCEPT !.ffmpeg_path = "ffmpeg"]
    IN IF tools.ffmpeg # "PATH" THEN _try_alternative_paths(self)
       ELSE IF tools.ffprobe # "PATH" THEN _try_alternative_paths(found)
       ELSE [found EXCEPT !.ffprobe_path = "ffprobe"]

\* FFmpegManager.__init__
FFmpegManager(tools) ==
    _check_ffmpeg_availability([ffmpeg_path |-> None, ffprobe_path |-> None], tools)

is_available(self) == self.ffmpeg_path # None /\ self.ffprobe_path # None

\* the package managers of install_ffmpeg_linux, in the order of its list
package_managers == <<"apt", "yum", "dnf", "pacman">>

\* what the commands of one package manager do: the update command is not
\* found, the install command exits with an error, a command raises an OSError
\* other than FileNotFoundError (sudo may not be executed), both commands
\* succeed without the tools appearing, or both succeed and the tools are on
\* the search path afterwards
PmOutcomes == {"FileNotFoundError", "CalledProcessError", "PermissionError",
               "no tools", "installed"}

\* FFmpegManager.install_ffmpeg_linux: one step per package manager run, with
\* the commands run and whether the tools were looked for again after them
install_ffmpeg_linux(self, tools, pm) ==
    LET stops == {i \in DOMAIN package_managers : pm[i] \in {"PermissionError", "installed"}}
        last == IF stops = {} THEN Len(package_managers)
                ELSE CHOOSE i \in stops : \A j \in stops : i <= j
        installed == stops # {} /\ pm[last] = "installed"
        after == IF installed THEN [ffmpeg |-> "PATH", ffprobe |-> "PATH"] ELSE tools
        steps == [i \in 1 .. last |->
                     [step |-> package_managers[i],
                      commands |-> IF pm[i] \in {"FileNotFoundError", "PermissionError"}
                                   THEN <<"update">> ELSE <<"update", "install">>,
                      exc |-> IF pm[i] \in {"no tools", "installed"} THEN "" ELSE pm[i],
                      probed |-> pm[i] \in {"no tools", "installed"},
                      found |-> pm[i] = "installed"]]
    IN [self |-> IF installed THEN _check_ffmpeg_availability(self, after) ELSE self,
        tools |-> after, ret |-> installed, steps |-> steps]

\* what the download of the static build does: it fails (no build for the
\* platform, or the download or the unpacking raises), or the archive holds
\* ffmpeg alone, or both tools
StaticOutcomes == {"failed", "ffmpeg only", "both"}

\* FFmpegManager.download_static_ffmpeg
download_static_ffmpeg(self, static) ==
    LET unpacked == [ffmpeg_path |-> IF static = "failed" THEN self.ffmpeg_path
                                     ELSE "ffmpeg_static/ffmpeg",
                     ffprobe_path |-> IF static = "both" THEN "ffmpeg_static/ffprobe"
                                      ELSE self.ffprobe_path]
    IN [self |-> unpacked, ret |-> static # "failed" /\ is_available(unpacked),
        steps |-> <<[step |-> "static", commands |-> <<"download">>,
                     exc |-> IF static = "failed" THEN "Exception" ELSE "",
                     probed |-> FALSE,
                     found |-> static # "failed" /\ is_available(unpacked)]>>]

\* FFmpegManager.setup_ytdlp_ffmpeg_location: os.environ after the call
setup_ytdlp_ffmpeg_location(self, environ) ==
    LET dirname == CASE self.ffmpeg_path = "ffmpeg" -> ""
                     [] self.ffmpeg_path = "/opt/bin/ffmpeg" -> "/opt/bin"
                     [] OTHER -> "ffmpeg_static"
    IN IF self.ffmpeg_path # None THEN Put(environ, "FFMPEG_LOCATION", dirname)
       ELSE environ

\* setup_ffmpeg() on the module's ffmpeg_manager: the host afterwards, the value
\* returned and the remedial steps taken
setup_ffmpeg(h, env) ==
    LET m == h.ffmpeg_manager
        i == IF h.os_name = "posix" THEN install_ffmpeg_linux(m, h.tools, env.pm)
             ELSE [self |-> m, tools |-> h.tools, ret |-> FALSE, steps |-> <<>>]
        s == download_static_ffmpeg(i.self, env.static)
    IN IF is_available(m)
       THEN [host |-> [h EXCEPT !.environ = setup_ytdlp_ffmpeg_location(m, @)],
             ret |-> TRUE, steps |-> <<>>]
       ELSE IF i.ret
       THEN [host |-> [h EXCEPT !.ffmpeg_manager = i.self, !.tools = i.tools],
             ret |-> TRUE, steps |-> i.steps]
       ELSE [host |-> [h EXCEPT !.ffmpeg_manager = s.self],
             ret |-> s.ret, steps |-> i.steps \o s.steps]

\* the extraction going by the path of ffmpeg alone, without looking at
\* self.ffmpeg_available
extract_audio_from_video_unchecked(self, h, video_path, proc) ==
    LET audio_path == Path(video_path.stem, ".mp3")
        ffmpeg_path == h.ffmpeg_manager.ffmpeg_path
        cmd == <<ffmpeg_path, "-i", video_path, "-vn", audio_path>>
        after == IF proc.output THEN [self EXCEPT !.files = @ \cup {audio_path}] ELSE self
    IN IF video_path \notin self.files \/ ffmpeg_path = None
       THEN [self |-> self, ret |-> NoPath, spawned |-> <<>>]
       ELSE IF proc.returncode = 0 /\ audio_path \in after.files
       THEN [self |-> after, ret |-> audio_path, spawned |-> <<cmd>>]
       ELSE [self |-> after, ret |-> NoPath, spawned |-> <<cmd>>]

\* the extraction going by the exit status alone
extract_audio_from_video_by_status(self, h, video_path, proc) ==
    LET audio_path == Path(video_path.stem, ".mp3")
        ffmpeg_path == h.ffmpeg_manager.ffmpeg_path
        cmd == <<ffmpeg_path, "-i", video_path, "-vn", audio_path>>
        after == IF proc.output THEN [self EXCEPT !.files = @ \cup {audio_path}] ELSE self
    IN IF video_path \notin self.files \/ ~self.ffmpeg_available \/ ffmpeg_path = None
       THEN [self |-> self, ret |-> NoPath, spawned |-> <<>>]
       ELSE IF proc.returncode = 0
       THEN [self |-> after, ret |-> audio_path, spawned |-> <<cmd>>]
       ELSE [self |-> after, ret |-> NoPath, spawned |-> <<cmd>>]

\* Downloader.extract_audio_from_video: proc is what the child process does, its
\* exit status and whether it writes the output file; spawned lists the child
\* processes started
extract_audio_from_video(self, h, video_path, proc) ==
    LET audio_path == Path(video_path.stem, ".mp3")
        ffmpeg_path == h.ffmpeg_manager.ffmpeg_path
        cmd == <<ffmpeg_path, "-i", video_path, "-vn", audio_path>>
        after == IF proc.output THEN [self EXCEPT !.files = @ \cup {audio_path}] ELSE self
    IN IF video_path \notin self.files
       THEN [self |-> self, ret |-> NoPath, spawned |-> <<>>]
       ELSE IF ~self.ffmpeg_available
       THEN [self |-> self, ret |-> NoPath, spawned |-> <<>>]
       ELSE IF ffmpeg_path = None
       THEN [self |-> self, ret |-> NoPath, spawned |-> <<>>]
       ELSE IF proc.returncode = 0 /\ audio_path \in after.files
       THEN [self |-> after, ret |-> audio_path, spawned |-> <<cmd>>]
       ELSE [self |-> after, ret |-> NoPath, spawned |-> <<cmd>>]

----------------------------------------------------------------------------
(* The probe at the construction of the Downloader, then downloads of videos *)
(* and extractions of their audio                                            *)

InitProbe ==
    /\ now = StartTime
    /\ svc = NoAttr
    /\ ret = NoAttr
    /\ twin = NoAttr
    /\ twin_ret = NoAttr
    /\ ever = NothingSeen
    /\ bot = NoAttr
    /\ dl = NoAttr
    /\ ev = [op |-> "import"]
    /\ \E tools \in [ffmpeg : Places, ffprobe : Places], os_name \in {"posix", "nt"} :
           host = [tools |-> tools, os_name |-> os_name, environ |-> EmptyMap,
                   ffmpeg_manager |-> FFmpegManager(tools)]

\* Downloader.__init__
Construct ==
    /\ dl = NoAttr
    /\ \E pm \in [DOMAIN package_managers -> PmOutcomes], static \in StaticOutcomes :
           LET s == setup_ffmpeg(host, [pm |-> pm, static |-> static])
           IN /\ host' = s.host
              /\ dl' = Downloader(s.ret)
              /\ ev' = [op |-> "setup_ffmpeg", result |-> s.ret, steps |-> s.steps,
                        before |-> host.ffmpeg_manager]
    /\ UNCHANGED <<svc, now, ret, twin, twin_ret, ever, bot>>

\* a video or a song arrives in the downloads directory
ProbeDownload ==
    /\ dl # NoAttr
    /\ \E url \in {<<"tiktok.com">>, <<"youtube.com">>}, net \in BotNet :
           Download("download_from_url", url, download_from_url(dl, url, net))

ExtractAudio ==
    /\ dl # NoAttr
    /\ \E video_path \in dl.files \cup {Path("downloads/tiktok_2", VideoContainer)},
          proc \in [returncode : {0, 1}, output : BOOLEAN] :
           LET x == extract_audio_from_video(dl, host, video_path, proc)
           IN /\ dl' = x.self
              /\ ev' = [op |-> "extract_audio_from_video", arg |-> video_path,
                        result |-> x.ret, spawned |-> x.spawned, proc |-> proc,
                        existed |-> Path(video_path.stem, ".mp3") \in dl.files]
    /\ UNCHANGED <<svc, now, ret, twin, twin_ret, ever, bot, host>>

NextProbe ==
    \/ Construct
    \/ ProbeDownload
    \/ ExtractAudio

SpecProbe == InitProbe /\ [][NextProbe]_vars

----------------------------------------------------------------------------
(* SongRecognizer (services/song_recognizer.py).  A response of the Shazam   *)
(* service is a dictionary; a dictionary is a function on its keys and a     *)
(* list is a sequence.                                                       *)

\* dict.get(key, default)
Get(d, key, default) == IF key \in DOMAIN d THEN d[key] ELSE default

\* the chains of look-ups through 'sections' and 'hub' that every method of
\* the SongRecognizer applies to a track: IndexError tells whether one of the
\* indexings [0], [1] meets a list too short
track_paths(track) ==
    LET sections == Get(track, "sections", <<EmptyMap>>)
        metadata == Get(sections[1], "metadata", <<EmptyMap>>)
        hub == Get(track, "hub", EmptyMap)
        actions == Get(hub, "actions", <<EmptyMap>>)
        options == Get(hub, "options", <<EmptyMap>>)
        apple == Get(options[1], "actions", <<EmptyMap>>)
        youtube == Get(options[2], "actions", <<EmptyMap>>)
    IN IF \/ sections = <<>>
          \/ metadata = <<>>
          \/ actions = <<>>
          \/ options = <<>>
          \/ apple = <<>>
          \/ Len(options) < 2
          \/ youtube = <<>>
       THEN [IndexError |-> TRUE]
       ELSE [IndexError |-> FALSE,
             album |-> Get(metadata[1], "text", "Unknown"),
             spotify_url |-> Get(actions[1], "uri", ""),
             apple_url |-> Get(apple[1], "uri", ""),
             youtube_url |-> Get(youtube[1], "uri", "")]

\* SongRecognizer.recognize_song: exists is os.path.exists(file_path), response
\* what shazam.recognize does; ret is the dictionary returned (NoSong for
\* None), exc the exception the handler caught
recognize_song(exists, response) ==
    LET result == response.result
        track == result["track"]
        p == track_paths(track)
    IN IF ~exists THEN [ret |-> NoSong, exc |-> ""]
       ELSE IF response.raises THEN [ret |-> NoSong, exc |-> "Exception"]
       ELSE IF result = EmptyMap \/ Get(result, "track", EmptyMap) = EmptyMap
       THEN [ret |-> NoSong, exc |-> ""]
       ELSE IF p.IndexError THEN [ret |-> NoSong, exc |-> "IndexError"]
       ELSE [ret |-> [title |-> Get(track, "title", "Unknown"),
                      artist |-> Get(track, "subtitle", "Unknown"),
                      album |-> p.album,
                      duration |-> Get(track, "duration", 0),
                      genre |-> Get(Get(track, "genres", EmptyMap), "primary", ""),
                      year |-> Get(track, "year", 0),
                      spotify_url |-> p.spotify_url,
                      apple_url |-> p.apple_url,
                      youtube_url |-> p.youtube_url,
                      image_url |-> Get(Get(track, "images", EmptyMap), "coverarthq", ""),
                      shazam_id |-> Get(track, "key", ""),
                      isrc |-> Get(track, "isrc", "")],
             exc |-> ""]

\* the list a method returns for the tracks of a response: one dictionary per
\* track, in the order of the response, and the empty list of the handler when
\* a track raises
track_infos(tracks) ==
    IF \E i \in DOMAIN tracks : track_paths(tracks[i]).IndexError
    THEN [ret |-> <<>>, exc |-> "IndexError"]
    ELSE [ret |-> [i \in DOMAIN tracks |->
                      LET track == tracks[i]
                          p == track_paths(track)
                      IN [id |-> Get(track, "key", ""),
                          title |-> Get(track, "title", "Unknown"),
                          artist |-> Get(track, "subtitle", "Unknown"),
                          album |-> p.album,
                          duration |-> Get(track, "duration", 0),
                          image_url |-> Get(Get(track, "images", EmptyMap), "coverarthq", ""),
                          spotify_url |-> p.spotify_url,
                          apple_url |-> p.apple_url,
                          youtube_url |-> p.youtube_url]],
          exc |-> ""]

\* what a list method hands back: the list, the exception caught, the requests
\* made to the service
L(infos, requests) == [ret |-> infos.ret, exc |-> infos.exc, requests |-> requests]

\* SongRecognizer.search_song: the tracks are response.result['tracks']['hits'][i]['track']
search_song(query, response) ==
    LET hits == Get(Get(response.result, "tracks", EmptyMap), "hits", <<>>)
        requests == <<[api |-> "search_track", limit |-> 10]>>
    IN IF response.raises THEN L([ret |-> <<>>, exc |-> "Exception"], requests)
       ELSE L(track_infos([i \in DOMAIN hits |-> hits[i]["track"]]), requests)

\* SongRecognizer.search_artist
search_artist(query, limit, response) ==
    LET hits == Get(Get(response.result, "artists", EmptyMap), "hits", <<>>)
        requests == <<[api |-> "search_artist", limit |-> limit]>>
    IN IF response.raises THEN L([ret |-> <<>>, exc |-> "Exception"], requests)
       ELSE L([ret |-> [i \in DOMAIN hits |->
                           LET artist == hits[i]["artist"]
                           IN [id |-> Get(artist, "id", ""),
                               name |-> Get(artist, "name", "Unknown"),
                               genre |-> Get(Get(artist, "genres", EmptyMap), "primary", ""),
                               image_url |-> Get(artist, "avatar", ""),
                               verified |-> Get(artist, "verified", FALSE)]],
               exc |-> ""], requests)

\* SongRecognizer.get_related_tracks
get_related_tracks(track_id, limit, response) ==
    LET requests == <<[api |-> "related_tracks", limit |-> limit]>>
    IN IF response.raises THEN L([ret |-> <<>>, exc |-> "Exception"], requests)
       ELSE L(track_infos(Get(response.result, "tracks", <<>>)), requests)

\* the chart chosen by the country alone
get_top_tracks_by_country(country_code, city_name, limit, response) ==
    LET requests ==
            IF Truthy(country_code)
            THEN <<[api |-> "top_country_tracks", limit |-> limit]>>
            ELSE <<[api |-> "top_world_tracks", limit |-> limit]>>
    IN IF response.raises THEN L([ret |-> <<>>, exc |-> "Exception"], requests)
       ELSE L(track_infos(Get(response.result, "tracks", <<>>)), requests)

\* SongRecognizer.get_top_tracks: an argument left out is None
get_top_tracks(country_code, city_name, limit, response) ==
    LET requests ==
            IF Truthy(city_name) /\ Truthy(country_code)
            THEN <<[api |-> "top_city_tracks", limit |-> limit]>>
            ELSE IF Truthy(country_code)
            THEN <<[api |-> "top_country_tracks", limit |-> limit]>>
            ELSE <<[api |-> "top_world_tracks", limit |-> limit]>>
    IN IF response.raises THEN L([ret |-> <<>>, exc |-> "Exception"], requests)
       ELSE L(track_infos(Get(response.result, "tracks", <<>>)), requests)

----------------------------------------------------------------------------
(* The SongRecognizer under any call and any response of the service       *)

\* the tracks of a response: every part that may be missing is missing, empty
\* or present
Tracks ==
    {basics @@ sections @@ genres @@ hub @@ images :
        basics \in {EmptyMap, [title |-> "T", subtitle |-> "A", duration |-> 200,
                               year |-> 1999, key |-> "k1", isrc |-> "I1"]},
        sections \in {EmptyMap, [sections |-> <<>>], [sections |-> <<EmptyMap>>],
                      [sections |-> <<[metadata |-> <<>>]>>],
                      [sections |-> <<[metadata |-> <<EmptyMap>>]>>],
                      [sections |-> <<[metadata |-> <<[text |-> "Al"]>>]>>]},
        genres \in {EmptyMap, [genres |-> EmptyMap], [genres |-> [primary |-> "Pop"]]},
        hub \in {EmptyMap, [hub |-> EmptyMap],
                 [hub |-> [actions |-> <<>>, options |-> <<>>]],
                 [hub |-> [actions |-> <<[uri |-> "sp"]>>,
                           options |-> <<[actions |-> <<[uri |-> "ap"]>>]>>]],
                 [hub |-> [options |-> <<EmptyMap, [actions |-> <<>>]>>]],
                 [hub |-> [actions |-> <<[uri |-> "sp"]>>,
                           options |-> <<[actions |-> <<[uri |-> "ap"]>>],
                                         [actions |-> <<[uri |-> "yt"]>>]>>]]},
        images \in {EmptyMap, [images |-> EmptyMap], [images |-> [coverarthq |-> "img"]]}}

\* the lists of a response: up to MaxHits entries, each a complete track, a
\* track with two hub options and nothing else, or a track without hub
Hits ==
    LET complete == [title |-> "T", subtitle |-> "A", duration |-> 200, key |-> "k1",
                     sections |-> <<[metadata |-> <<[text |-> "Al"]>>]>>,
                     hub |-> [actions |-> <<[uri |-> "sp"]>>,
                              options |-> <<[actions |-> <<[uri |-> "ap"]>>],
                                            [actions |-> <<[uri |-> "yt"]>>]>>],
                     images |-> [coverarthq |-> "img"]]
        plain == [hub |-> [options |-> <<EmptyMap, EmptyMap>>]]
        bare == [title |-> "T"]
    IN UNION {[1 .. n -> {complete, plain, bare}] : n \in 0 .. MaxHits}

InitRecognizer ==
    /\ now = StartTime
    /\ svc = NoAttr
    /\ ret = NoAttr
    /\ twin = NoAttr
    /\ twin_ret = NoAttr
    /\ ever = NothingSeen
    /\ bot = NoAttr
    /\ dl = NoAttr
    /\ host = NoAttr
    /\ ev = [op |-> "__init__"]

\* a method of the SongRecognizer called with args and answered with x; the
\* SongRecognizer keeps nothing between calls, and a behaviour is one call
Answer(op, args, response, x) ==
    /\ ev.op = "__init__"
    /\ ev' = [op |-> op, args |-> args, response |-> response, result |-> x.ret,
              exc |-> x.exc, requests |-> x.requests]
    /\ UNCHANGED <<svc, now, ret, twin, twin_ret, ever, bot, dl, host>>

NextRecognizer ==
    \/ \E exists, raises \in BOOLEAN, track \in Tracks :
           \E result \in {EmptyMap, [track |-> track]} :
               LET response == [raises |-> raises, result |-> result]
                   x == recognize_song(exists, response)
               IN Answer("recognize_song", [exists |-> exists], response,
                         L(x, <<[api |-> "recognize"]>>))
    \/ \E raises \in BOOLEAN, hits \in Hits :
           LET response == [raises |-> raises,
                            result |-> [tracks |-> [hits |->
                                           [i \in DOMAIN hits |-> [track |-> hits[i]]]]]]
           IN Answer("search_song", [limit |-> 10], response,
                     search_song("q", response))
    \/ \E raises \in BOOLEAN, n \in 0 .. MaxHits, limit \in 1 .. MaxHits :
           LET response == [raises |-> raises,
                            result |-> [artists |-> [hits |->
                                           [i \in 1 .. n |->
                                               [artist |-> [id |-> i, name |-> "N"]]]]]]
           IN Answer("search_artist", [limit |-> limit], response,
                     search_artist("q", limit, response))
    \/ \E raises \in BOOLEAN, hits \in Hits, limit \in 1 .. MaxHits :
           LET response == [raises |-> raises, result |-> [tracks |-> hits]]
           IN Answer("get_related_tracks", [limit |-> limit], response,
                     get_related_tracks("k1", limit, response))
    \/ \E raises \in BOOLEAN, hits \in Hits, limit \in 1 .. MaxHits,
          country_code \in {None, "", "GB"}, city_name \in {None, "London"} :
           LET response == [raises |-> raises, result |-> [tracks |-> hits]]
           IN Answer("get_top_tracks",
                     [limit |-> limit, country_code |-> country_code,
                      city_name |-> city_name],
                     response,
                     get_top_tracks(country_code, city_name, limit, response))

SpecRecognizer == InitRecognizer /\ [][NextRecognizer]_vars

----------------------------------------------------------------------------
(* Requests of several users on the in-process backend.  A handler of bot.py
   is a coroutine: it runs until it awaits the network (get_file, the download,
   the recognition, a reply) and another user's handler may run from there.
   The methods of FirebaseService contain no await, so a call of one is a
   single step of the event loop. *)

\* the store calls of a handler in order, each behind a suspension point:
\* start_command; the audio and URL handlers when a song is recognised, and
\* when its download is sent as well
Scripts ==
    {<<"save_user">>, <<"songs_recognized">>,
     <<"songs_recognized", "songs_downloaded">>}

Idle == [u \in UserIds |-> <<>>]

InitInterleave ==
    /\ now = StartTime
    /\ svc = FirebaseService(FALSE, FALSE, EmptyCloud, StartTime)
    /\ ret = InitRet(FALSE, FALSE, svc)
    /\ twin = NoAttr
    /\ twin_ret = NoAttr
    /\ ever = NothingSeen
    /\ bot = NoAttr
    /\ dl = NoAttr
    /\ host = NoAttr
    /\ ev = [op |-> "__init__", pending |-> Idle, started |-> {},
             completed |-> [name \in {"songs_recognized", "songs_downloaded"} |-> 0],
             saved |-> {}, interleaved |-> FALSE]

\* an update of user_id arrives and its handler runs to its first await
Arrive ==
    \E user_id \in UserIds, script \in Scripts :
        /\ ev.pending[user_id] = <<>>
        /\ ev' = [ev EXCEPT !.op = "arrive", !.pending[user_id] = script]
        /\ UNCHANGED <<svc, now, ret, twin, twin_ret, ever, bot, dl, host>>

\* the handler of user_id is resumed, makes its next call of the store and
\* runs to its next await or to its end
Resume ==
    \E user_id \in UserIds :
        /\ ev.pending[user_id] # <<>>
        /\ LET call == Head(ev.pending[user_id])
               rest == Tail(ev.pending[user_id])
               among == \E other \in ev.started \ {user_id} :
                            ev.pending[other] # <<>>
               moved == [ev EXCEPT !.op = call, !.pending[user_id] = rest,
                                   !.started = IF rest = <<>> THEN @ \ {user_id}
                                               ELSE @ \cup {user_id},
                                   !.interleaved = @ \/ among]
           IN IF call = "save_user"
              THEN /\ svc' = save_user(svc, User(user_id, None, None, None, "en",
                                                 now, TRUE, now), now, 0).self
                   /\ ev' = [moved EXCEPT !.saved = @ \cup {user_id}]
              ELSE /\ Counted(svc, call) < MaxCount
                   /\ svc' = increment_stat(svc, call, now, 0).self
                   /\ ev' = [moved EXCEPT !.completed[call] = @ + 1]
        /\ UNCHANGED <<now, ret, twin, twin_ret, ever, bot, dl, host>>

NextInterleave ==
    \/ Arrive
    \/ Resume

SpecInterleave == InitInterleave /\ [][NextInterleave]_vars

----------------------------------------------------------------------------
(* The two counters of songs under interleaved requests, on either backend.  *)
(* As above a handler runs from one await to the next; the outcomes of its   *)
(* awaits decide which calls of increment_stat it makes.                     *)

\* what a request meets: the file or the URL is fetched, the fetched URL has
\* an audio extension, the song is recognised, download_song returns a path,
\* reply_audio succeeds
Outcomes ==
    [fetched : BOOLEAN, audio : BOOLEAN, found : BOOLEAN, downloaded : BOOLEAN,
     sent : BOOLEAN]

\* mutant: a URL whose song is not recognised counts as a download
increment_calls_eager(handler, o) ==
    IF handler = "handle_audio_message"
    THEN IF ~o.fetched \/ ~o.found THEN <<>>
         ELSE IF o.downloaded /\ o.sent
         THEN <<"songs_recognized", "songs_downloaded">>
         ELSE <<"songs_recognized">>
    ELSE IF ~o.fetched THEN <<>>
         ELSE IF ~o.audio \/ ~o.found THEN <<"songs_downloaded">>
         ELSE IF o.sent THEN <<"songs_recognized", "songs_downloaded">>
         ELSE <<"songs_recognized">>

\* the increment_stat calls of handle_audio_message (outside the edit flow)
\* and of handle_url_download, in order; a failing reply_audio raises past
\* the second call
increment_calls(handler, o) ==
    IF handler = "handle_audio_message"
    THEN IF ~o.fetched \/ ~o.found THEN <<>>
         ELSE IF o.downloaded /\ o.sent
         THEN <<"songs_recognized", "songs_downloaded">>
         ELSE <<"songs_recognized">>
    ELSE IF ~o.fetched THEN <<>>
         ELSE IF ~o.audio \/ ~o.found THEN <<>>
         ELSE IF o.sent THEN <<"songs_recognized", "songs_downloaded">>
         ELSE <<"songs_recognized">>

InitCounters ==
    /\ now = StartTime
    /\ \E available \in BOOLEAN :
          /\ svc = FirebaseService(available, available, EmptyCloud, StartTime)
          /\ ret = InitRet(available, available, svc)
    /\ twin = NoAttr
    /\ twin_ret = NoAttr
    /\ ever = NothingSeen
    /\ bot = NoAttr
    /\ dl = NoAttr
    /\ host = NoAttr
    /\ ev = [op |-> "__init__", pending |-> Idle, started |-> {},
             failed |-> FALSE, interleaved |-> FALSE]

\* a media message or a URL of user_id arrives
Request ==
    \E user_id \in UserIds, o \in Outcomes,
       handler \in {"handle_audio_message", "handle_url_download"} :
        /\ ev.pending[user_id] = <<>>
        /\ ev' = [ev EXCEPT !.op = handler,
                            !.pending[user_id] = increment_calls(handler, o)]
        /\ UNCHANGED <<svc, now, ret, twin, twin_ret, ever, bot, dl, host>>

\* the handler of user_id is resumed and makes its next increment_stat call,
\* which on Firestore may fail
Count ==
    \E user_id \in UserIds, fail \in {0, 1} :
        /\ ev.pending[user_id] # <<>>
        /\ LET call == Head(ev.pending[user_id])
               rest == Tail(ev.pending[user_id])
               r == increment_stat(svc, call, now, fail)
               among == \E other \in ev.started \ {user_id} :
                            ev.pending[other] # <<>>
           IN /\ Counted(svc, call) < MaxCount
              /\ svc' = r.self
              /\ ev' = [ev EXCEPT !.op = call, !.pending[user_id] = rest,
                                  !.started = IF rest = <<>> THEN @ \ {user_id}
                                              ELSE @ \cup {user_id},
                                  !.failed = @ \/ r.exc # "",
                                  !.interleaved = @ \/ among]
        /\ UNCHANGED <<now, ret, twin, twin_ret, ever, bot, dl, host>>

NextCounters ==
    \/ Request
    \/ Count

SpecCounters == InitCounters /\ [][NextCounters]_vars

----------------------------------------------------------------------------
(* The temp directory under recognition requests that may overlap             *)

\* utils.helpers.clean_temp_files over the set of files of the temp
\* directory: a path given and existing is removed alone; in every other
\* case the loop over os.listdir removes every file
clean_temp_files(files, file_path) ==
    IF file_path # NoPath /\ file_path \in files
    THEN files \ {file_path}
    ELSE {}

\* the file_id of the media a user sends (the same media has the same id)
FileIds == {"f1", "f2", "f3"}

InitTemp ==
    /\ now = StartTime
    /\ svc = NoAttr
    /\ ret = NoAttr
    /\ twin = NoAttr
    /\ twin_ret = NoAttr
    /\ ever = NothingSeen
    /\ bot = NoAttr
    /\ dl = NoAttr
    /\ host = [temp |-> {}]
    /\ ev = [op |-> "__init__", user_id |-> 0, arg |-> NoPath,
             file_path |-> [u \in UserIds |-> NoPath]]

\* handle_audio_message of user_id up to the recognition: the media is
\* written to temp/<file_id>.mp3
DownloadToDrive ==
    \E user_id \in UserIds, file_id \in FileIds :
        /\ ev.file_path[user_id] = NoPath
        /\ host' = [host EXCEPT !.temp = @ \cup {Path(file_id, ".mp3")}]
        /\ ev' = [op |-> "download_to_drive", user_id |-> user_id,
                  arg |-> Path(file_id, ".mp3"),
                  file_path |-> [ev.file_path EXCEPT
                                    ![user_id] = Path(file_id, ".mp3")]]
        /\ UNCHANGED <<svc, now, ret, twin, twin_ret, ever, bot, dl>>

\* an await between the download and the clean-up raises (a reply that
\* fails): the outer handler is taken and the file stays
Raise ==
    \E user_id \in UserIds :
        /\ ev.file_path[user_id] # NoPath
        /\ ev' = [op |-> "except", user_id |-> user_id, arg |-> ev.file_path[user_id],
                  file_path |-> [ev.file_path EXCEPT ![user_id] = NoPath]]
        /\ UNCHANGED <<svc, now, ret, twin, twin_ret, ever, bot, dl, host>>

\* the end of handle_audio_message of user_id: clean_temp_files(file_path)
CleanUp ==
    \E user_id \in UserIds :
        /\ ev.file_path[user_id] # NoPath
        /\ host' = [host EXCEPT !.temp = clean_temp_files(@, ev.file_path[user_id])]
        /\ ev' = [op |-> "clean_temp_files", user_id |-> user_id,
                  arg |-> ev.file_path[user_id],
                  file_path |-> [ev.file_path EXCEPT ![user_id] = NoPath]]
        /\ UNCHANGED <<svc, now, ret, twin, twin_ret, ever, bot, dl>>

NextTemp ==
    \/ DownloadToDrive
    \/ Raise
    \/ CleanUp

SpecTemp == InitTemp /\ [][NextTemp]_vars

----------------------------------------------------------------------------
(* What the backend in use stores *)

UsersOf(self) ==
    IF UsesFirebase(self) THEN self.cloud.users ELSE self.local_storage.users

SongsOf(self) ==
    IF UsesFirebase(self) THEN self.cloud.songs ELSE self.local_storage.songs

\* the statistics dictionary: statistics/bot_stats (an empty mapping while the
\* document does not exist), or local_storage['statistics']
StatsOf(self) ==
    IF UsesFirebase(self)
    THEN IF "bot_stats" \in DOMAIN self.cloud.statistics
         THEN self.cloud.statistics["bot_stats"] ELSE EmptyMap
    ELSE self.local_storage.statistics

\* the expiry of a stored record lies before clock reading t
ExpiryPassed(d, t) == d.expires_at # None /\ fromisoformat(d.expires_at) < t

----------------------------------------------------------------------------
(* Claims on broadcast messages, checked under SpecBroadcast *)

\* C1: get_active_broadcasts never returns a record whose expiry lies before
\* the clock reading of the call, and when the call returns without a backend
\* error every stored record whose expiry has passed is flagged inactive.
C1_ExpiredNeverActive ==
    ret.op = "get_active_broadcasts" =>
        /\ \A i \in 1 .. Len(ret.result) : ~ExpiryPassed(ret.result[i], ret.at)
        /\ ~ret.raised =>
              \A k \in DOMAIN Broadcasts(svc) :
                  ExpiryPassed(Broadcasts(svc)[k], ret.at)
                      => ~Broadcasts(svc)[k].is_active

\* a read has deactivated the record sent at 2 (it was active when the process
\* started) and has returned another record
C1_Witness ==
    /\ ret.op = "get_active_broadcasts"
    /\ ~ret.raised
    /\ Len(ret.result) > 0
    /\ BroadcastId(2) \in DOMAIN Broadcasts(svc)
    /\ ~Broadcasts(svc)[BroadcastId(2)].is_active

\* C2: a broadcast saved with duration_hours = h > 0 at clock reading T is
\* stored with expiry T + h hours (and so is returned by get_active_broadcasts
\* up to T + h and excluded after it); a stored broadcast without expiry is
\* returned by every get_active_broadcasts that completes.
C2_SavedWithExpiry ==
    /\ (ret.op = "save_broadcast_message" /\ ret.args.duration_hours > 0
            /\ ret.exc # "BackendError") =>
          /\ ret.result = BroadcastId(ret.at)
          /\ ret.result \in DOMAIN Broadcasts(svc)
          /\ Broadcasts(svc)[ret.result].expires_at =
                 isoformat(ret.at + ret.args.duration_hours * TicksPerHour)
    /\ (ret.op = "get_active_broadcasts" /\ ~ret.raised) =>
          \A k \in DOMAIN Broadcasts(svc) :
              LET d == Broadcasts(svc)[k]
              IN (d.expires_at = None \/ fromisoformat(d.expires_at) >= ret.at)
                     => (d.is_active => \E i \in 1 .. Len(ret.result) : ret.result[i] = d)

\* C3: a record that has been seen inactive is never active again and is never
\* returned by get_active_broadcasts, and a step takes a record from active to
\* inactive only when its expiry has passed.
C3_DeactivatedOnce ==
    /\ [](/\ \A k \in ever.inactive \cap DOMAIN Broadcasts(svc) :
                ~Broadcasts(svc)[k].is_active
          /\ ret.op = "get_active_broadcasts" =>
                \A i \in 1 .. Len(ret.result) : ret.result[i].id \notin ever.inactive)
    /\ [][\A k \in DOMAIN Broadcasts(svc) \cap DOMAIN Broadcasts(svc') :
             (Broadcasts(svc)[k].is_active /\ ~Broadcasts(svc')[k].is_active)
                 => ExpiryPassed(Broadcasts(svc)[k], now)]_vars

\* the record sent at 2 was deactivated in this run, and a later read returned
\* other records
C3_Witness ==
    /\ BroadcastId(2) \in ever.inactive
    /\ ret.op = "get_active_broadcasts"
    /\ ~ret.raised
    /\ Len(ret.result) > 0

\* C4: a cleanup_expired_data call adds and changes no broadcast, keeps every
\* broadcast without expiry or whose expiry has not passed, leaves users, songs
\* and statistics as they were, and, when it returns without a backend error,
\* has deleted every broadcast whose expiry has passed.
C4_CleanupDeletesExpired ==
    [][(ret'.op = "cleanup_expired_data" /\ now' = now) =>
          LET old == Broadcasts(svc)
              new == Broadcasts(svc')
          IN /\ \A k \in DOMAIN new : k \in DOMAIN old /\ new[k] = old[k]
             /\ \A k \in DOMAIN old : ~ExpiryPassed(old[k], now) => k \in DOMAIN new
             /\ ~ret'.raised =>
                   \A k \in DOMAIN old : ExpiryPassed(old[k], now) => k \notin DOMAIN new
             /\ UsersOf(svc') = UsersOf(svc)
             /\ SongsOf(svc') = SongsOf(svc)
             /\ StatsOf(svc') = StatsOf(svc)]_vars

\* cleanup has deleted a record that was never seen inactive (no read had
\* deactivated it), a record without expiry is still stored, and a user is stored
C4_Witness ==
    /\ ret.op = "cleanup_expired_data"
    /\ ~ret.raised
    /\ \E k \in ever.stored : k \notin DOMAIN Broadcasts(svc) /\ k \notin ever.inactive
    /\ \E k \in DOMAIN Broadcasts(svc) : Broadcasts(svc)[k].expires_at = None
    /\ UsersOf(svc) # EmptyMap

----------------------------------------------------------------------------
(* Claims on users, songs and statistics, checked under Spec and SpecUpsert *)

Counters(stats) == DOMAIN stats \ {"last_updated"}

\* C5: an increment_stat(name) call on a counter name (any name but the
\* last_updated timestamp) that meets no backend error returns True, sets a
\* counter the statistics did not hold to 1 and a counter of value v to v + 1,
\* and leaves the value of every other counter as stored (a default counter
\* not stored before is stored as 0).
C5_IncrementStat ==
    [][(ret'.op = "increment_stat" /\ now' = now
            /\ ret'.args.stat_name # "last_updated" /\ ret'.exc # "BackendError") =>
          LET old == StatsOf(svc)
              new == StatsOf(svc')
              name == ret'.args.stat_name
          IN /\ ret'.result = TRUE
             /\ name \in DOMAIN new
             /\ new[name] = IF name \in DOMAIN old THEN old[name] + 1 ELSE 1
             /\ Counters(old) \subseteq Counters(new)
             /\ \A m \in Counters(new) \ {name} :
                    new[m] = IF m \in DOMAIN old THEN old[m] ELSE 0]_vars

\* two calls in a row on a name the statistics did not hold have left it at 2
C5_Witness ==
    /\ ret.op = "increment_stat"
    /\ ret.args.stat_name = "plays"
    /\ ret.result = TRUE
    /\ ret.again
    /\ StatsOf(svc)["plays"] = 2

\* C6: no step of the store lowers a stored counter, and a stored counter
\* changes only by one.
C6_CountersOnlyIncrement ==
    [][\A m \in Counters(StatsOf(svc)) \cap Counters(StatsOf(svc')) :
           \/ StatsOf(svc')[m] = StatsOf(svc)[m]
           \/ StatsOf(svc')[m] = StatsOf(svc)[m] + 1]_vars

\* the fields of a stored user that make up the UserRecord
UserRecord(d) ==
    [id |-> d.id, username |-> d.username, first_name |-> d.first_name,
     last_name |-> d.last_name, language |-> d.language, joined_at |-> d.joined_at]

\* C7: a save_user (save_song) call that succeeds stores the record under its
\* identifier, replacing the record stored there and touching no other; when
\* it repeats the call before it, the store is left as it was: the same
\* records, the same statistics (total_users included), only the last_activity
\* of the user refreshed.
C7_IdempotentUpsert ==
    [][/\ (ret'.op = "save_user" /\ now' = now /\ ~ret'.raised) =>
             LET old == UsersOf(svc)
                 new == UsersOf(svc')
                 user == ret'.args.user
                 key == ToString(user.id)
             IN /\ DOMAIN new = DOMAIN old \cup {key}
                /\ \A j \in DOMAIN old \ {key} : new[j] = old[j]
                /\ UserRecord(new[key]) =
                       [id |-> user.id, username |-> user.username,
                        first_name |-> user.first_name, last_name |-> user.last_name,
                        language |-> user.language,
                        joined_at |-> ToString(user.joined_at)]
                /\ SongsOf(svc') = SongsOf(svc)
                /\ ret'.again =>
                      /\ key \in DOMAIN old
                      /\ [new EXCEPT ![key].last_activity = old[key].last_activity] = old
                      /\ StatsOf(svc') = StatsOf(svc)
       /\ (ret'.op = "save_song" /\ now' = now /\ ~ret'.raised) =>
             LET old == SongsOf(svc)
                 new == SongsOf(svc')
                 song == ret'.args.song
                 key == IF song.shazam_id \notin {"", None} THEN song.shazam_id
                        ELSE ToString(song.id)
             IN /\ DOMAIN new = DOMAIN old \cup {key}
                /\ \A j \in DOMAIN old \ {key} : new[j] = old[j]
                /\ new[key].title = song.title
                /\ UsersOf(svc') = UsersOf(svc)
                /\ StatsOf(svc') = StatsOf(svc)
                /\ ret'.again => svc' = svc]_vars

\* the same user has been saved twice in a row, the second time at a later
\* clock reading, next to another stored user
C7_Witness ==
    /\ ret.op = "save_user"
    /\ ~ret.raised
    /\ ret.again
    /\ Cardinality(DOMAIN UsersOf(svc)) = 2
    /\ LET d == UsersOf(svc)[ToString(ret.args.user.id)]
       IN d.last_activity # d.joined_at

\* C8: get_user(u.id) right after a successful save_user(u) returns u in every
\* field, the active flag included.
C8_RoundTrip ==
    [][(ret.op = "save_user" /\ ~ret.raised /\ ret'.op = "get_user"
            /\ ret'.args.user_id = ret.args.user.id /\ ret'.exc # "BackendError") =>
          ret'.result = ret.args.user]_vars

\* C9: the constructor picks Firestore exactly when the import and the
\* initialisation both succeed and the in-process store otherwise; no call,
\* failing or not, changes self.initialized or self.db; every call works on
\* the backend picked, and the other backend's data is never touched.
C9_BackendChosenOnce ==
    /\ [](/\ ret.op = "__init__" =>
                (UsesFirebase(svc) <=> (ret.args.available /\ ret.args.init_ok))
          /\ UsesFirebase(svc) => svc.local_storage = NoAttr
          /\ ~UsesFirebase(svc) =>
                svc.local_storage # NoAttr /\ svc.cloud = EmptyCloud
          /\ ret.backend \in {"none", IF UsesFirebase(svc) THEN "firebase" ELSE "local"})
    /\ [][svc'.initialized = svc.initialized /\ svc'.db = svc.db]_vars

\* a Firestore call has raised, and the instance is still on Firestore with
\* the user it stored before
C9_Witness ==
    /\ ret.exc = "BackendError"
    /\ UsesFirebase(svc)
    /\ UsersOf(svc) # EmptyMap

\* C11: every call of a Record Store method returns; when an exception was
\* raised inside it (by the backend or by the method's own code), the value
\* returned is the method's sentinel: False, None, an empty list, an empty
\* string or the zeroed statistics.
C11_SentinelOnFailure ==
    /\ ret.op # "__init__" =>
          ret.op \in {"save_user", "get_user", "update_user_language",
                      "get_all_users", "save_song", "get_song", "get_statistics",
                      "increment_stat", "save_broadcast_message",
                      "get_active_broadcasts", "cleanup_expired_data"}
    /\ ret.raised => ret.result = Sentinel(ret.op, ret.at)

\* a Firestore call of get_statistics has raised while users were stored
C11_Witness ==
    /\ ret.op = "get_statistics"
    /\ ret.exc = "BackendError"
    /\ ret.result = ZeroStats(ret.at)
    /\ UsersOf(svc) # EmptyMap

----------------------------------------------------------------------------
(* Claims on the conversation flows of the bot, checked under SpecBot *)

\* C12: once an update that failed has been handled (the user was sent an
\* error reply, or an exception left the handler), the user's session state is
\* idle: no entry in user_states.
C12_FailureReturnsToIdle ==
    ev.out.failed => StateOf(bot, ev.user_id) = 0

\* C13: a user who is not the administrator is never in the state
\* BROADCAST_WAITING_FOR_MESSAGE or BROADCAST_WAITING_FOR_DURATION, and only an
\* update sent by the administrator delivers a broadcast.
C13_BroadcastAdminOnly ==
    /\ \A u \in DOMAIN bot.user_states :
           bot.user_states[u] \in {BROADCAST_WAITING_FOR_MESSAGE,
                                   BROADCAST_WAITING_FOR_DURATION}
               => u = ADMIN_USER_ID
    /\ ev.out.delivered # {} => ev.user_id = ADMIN_USER_ID

\* the administrator's duration text has delivered a broadcast to another user,
\* and both are idle afterwards
C13_Witness ==
    /\ ev.op = "handle_text_message"
    /\ ev.user_id = ADMIN_USER_ID
    /\ 1 \in ev.out.delivered
    /\ StateOf(bot, 1) = 0
    /\ StateOf(bot, ADMIN_USER_ID) = 0

----------------------------------------------------------------------------
(* Claims on the classification of URLs, checked under SpecClassify and SpecBot *)

\* the entries of the reference table a URL matches, whatever the case of its
\* letters
Matching(url) ==
    {p \in DOMAIN SOCIAL_MEDIA_PLATFORMS :
        \E i \in DOMAIN SOCIAL_MEDIA_PLATFORMS[p].fragments :
            In(SOCIAL_MEDIA_PLATFORMS[p].fragments[i], lower(url))}

\* the platform owning the first entry of the table that matches, None when no
\* entry does
TableLookup(url) ==
    IF Matching(url) = {} THEN None
    ELSE SOCIAL_MEDIA_PLATFORMS[CHOOSE p \in Matching(url) :
                                    \A q \in Matching(url) : p <= q].platform

\* C14: for every URL, both classifiers return the platform owning the first
\* entry of config.SOCIAL_MEDIA_PLATFORMS one of whose fragments occurs in the
\* URL, letters compared without case, and None (unsupported) when no fragment
\* of the table occurs in it.
C14_ClassifyIsTableLookup ==
    ev.op = "classify" =>
        /\ ev.result = TableLookup(ev.arg)
        /\ ev.helper = TableLookup(ev.arg)
        /\ (\E f \in Fragments : In(f, lower(ev.arg))) <=> ev.result # None

\* a URL with a capitalised fragment of one platform after a fragment of a
\* later platform of the table has been classified as the earlier platform
C14_Witness ==
    /\ ev.op = "classify"
    /\ ev.arg = <<"soundcloud.com", "YouTube.com">>
    /\ ev.result = "youtube"
    /\ ev.helper = "youtube"

\* C15: a text message of a user in the idle state is handed to
\* download_from_url exactly when the classifier maps the text to a platform
\* of the reference table, whichever fragment of the platform it contains.
C15_HandedIffClassified ==
    [][(ev'.op = "handle_text_message" /\ StateOf(bot, ev'.user_id) = 0) =>
           (ev'.out.handed # <<>> <=> _get_platform_from_url(ev'.arg) # None)]_vars

----------------------------------------------------------------------------
(* Claims on the Downloader, checked under SpecDownloader *)

\* C16: download_from_url invokes the adapter of the platform the classifier
\* returns and no other, once, also when that adapter fails; every fetch of
\* the call is issued by that adapter; for a URL of no platform it invokes no
\* adapter, issues no fetch and leaves the files on disk as they were.
C16_OneAdapter ==
    [][ev'.op = "download_from_url" =>
           LET platform == _get_platform_from_url(ev'.arg)
           IN IF platform = None
              THEN ev'.invoked = <<>> /\ ev'.fetches = <<>> /\ dl' = dl
              ELSE /\ ev'.invoked = <<platform>>
                   /\ Len(ev'.fetches) <= 1
                   /\ \A i \in DOMAIN ev'.fetches : ev'.fetches[i].adapter = platform]_vars

\* a download from a YouTube URL has failed in the extractor, after the one
\* fetch of the YouTube adapter, with files of earlier downloads on disk
C16_Witness ==
    /\ ev.op = "download_from_url"
    /\ ev.arg = <<"YouTube.com">>
    /\ ev.exc = "DownloadError"
    /\ ev.result = NoPath
    /\ ev.invoked = <<"youtube">>
    /\ Len(ev.fetches) = 1
    /\ dl.files # {}

\* C17: when the adapter of a supported platform has failed, the result
\* download_from_url has returned differs from the result it returns for any
\* URL of an unsupported platform, so that the caller can tell the two apart.
C17_UnsupportedDistinct ==
    (/\ ev.op = "download_from_url"
     /\ ev.invoked # <<>>
     /\ ev.exc # "") =>
        \A url \in DownloadUrls, net \in Net :
            _get_platform_from_url(url) = None =>
                download_from_url(dl, url, net).ret # ev.result

\* C18: no call of download_song or download_from_url raises to its caller,
\* and a call in which an exception was raised (by the network, the extractor,
\* the post-processor or an empty search result) returns None.
C18_ExceptionsBecomeNone ==
    ev.op \in {"download_song", "download_from_url"} =>
        /\ ev.raised = ""
        /\ ev.exc # "" => ev.result = NoPath

\* a search without hits has raised IndexError inside download_song, which has
\* returned None
C18_Witness ==
    /\ ev.op = "download_song"
    /\ ev.exc = "IndexError"
    /\ ev.raised = ""
    /\ ev.result = NoPath

\* C19: a Downloader whose ffmpeg_available is False issues no fetch whose
\* options queue a post-processor.
C19_NoPostprocessingWithoutFfmpeg ==
    (ev.op \in {"download_song", "download_from_url"} /\ ~dl.ffmpeg_available) =>
        \A i \in DOMAIN ev.fetches : ev.fetches[i].postprocessors = <<>>

\* C20: when a fetch of download_song or download_from_url has delivered a
\* container other than .mp3 and the .mp3 of the same base name is on disk
\* after the call, the call returns the .mp3, whatever the container is and
\* whether or not the container file is still on disk.
C20_SiblingPreferred ==
    ev.op \in {"download_song", "download_from_url"} =>
        \A i \in DOMAIN ev.fetches :
            LET downloaded_file == ev.fetches[i].filename
                mp3_file == Path(downloaded_file.stem, ".mp3")
            IN (/\ downloaded_file # NoPath
                /\ downloaded_file.ext # ".mp3"
                /\ mp3_file \in dl.files) =>
                   ev.result = mp3_file

\* C21: every path download_song or download_from_url returns names a file on
\* disk; and a download from a YouTube URL whose fetch has succeeded returns a
\* path: with ffmpeg available the path of the .mp3, whatever container was
\* delivered, and without ffmpeg the path of the container delivered.
C21_YoutubeResultExists ==
    ev.op \in {"download_song", "download_from_url"} =>
        /\ ev.result # NoPath => ev.result \in dl.files
        /\ (/\ ev.invoked = <<"youtube">>
            /\ ev.exc = ""
            /\ ev.fetches[1].filename # NoPath) =>
               /\ ev.result # NoPath
               /\ ev.result.stem = ev.fetches[1].filename.stem
               /\ ev.result.ext = IF dl.ffmpeg_available THEN ".mp3"
                                  ELSE ev.fetches[1].filename.ext

----------------------------------------------------------------------------
(* Claims on the capability probe and the audio extraction, checked under    *)
(* SpecProbe                                                                 *)

\* C22: when the tools are not found and no remedial step finds them,
\* setup_ffmpeg returns False, and a Downloader constructed with that result
\* returns None from every extract_audio_from_video call without starting a
\* child process.
C22_UnavailableNoChild ==
    /\ (/\ ev.op = "setup_ffmpeg"
        /\ ~is_available(ev.before)
        /\ \A i \in DOMAIN ev.steps : ~ev.steps[i].found) =>
           ev.result = FALSE /\ ~dl.ffmpeg_available
    /\ (ev.op = "extract_audio_from_video" /\ ~dl.ffmpeg_available) =>
           ev.result = NoPath /\ ev.spawned = <<>>

\* on a host without the tools, where every package manager and the static
\* download failed, the extraction from a video on disk has returned None
C22_Witness ==
    /\ ev.op = "extract_audio_from_video"
    /\ host.tools = [ffmpeg |-> "absent", ffprobe |-> "absent"]
    /\ host.ffmpeg_manager.ffmpeg_path = None
    /\ ~dl.ffmpeg_available
    /\ ev.arg \in dl.files
    /\ ev.arg.ext = VideoContainer
    /\ ev.result = NoPath
    /\ ev.spawned = <<>>

\* C23: with ffmpeg available, extract_audio_from_video returns a path exactly
\* when the child process it started exited with status 0 and the output file
\* exists afterwards, and the path is that of the output file; status 0
\* without the file, and another status with the file present, both give None.
C23_StatusAndOutput ==
    (ev.op = "extract_audio_from_video" /\ dl.ffmpeg_available) =>
        LET audio_path == Path(ev.arg.stem, ".mp3")
        IN /\ ev.result # NoPath <=>
                  (/\ ev.spawned # <<>>
                   /\ ev.proc.returncode = 0
                   /\ audio_path \in dl.files)
           /\ ev.result # NoPath => ev.result = audio_path

\* the child process has exited with an error while the output file of an
\* earlier extraction is on disk, and None has been returned
C23_Witness ==
    /\ ev.op = "extract_audio_from_video"
    /\ dl.ffmpeg_available
    /\ ev.spawned # <<>>
    /\ ev.proc.returncode = 1
    /\ ev.arg.ext = VideoContainer
    /\ Path(ev.arg.stem, ".mp3") \in dl.files
    /\ ev.result = NoPath

\* C24: when setup_ffmpeg does not find the tools, the package managers are run
\* in the order apt, yum, dnf, pacman; the tools are looked for again after an
\* installation and the step that finds them is the last one; the static
\* download comes only after all four package managers have been run without
\* finding the tools; and False is returned only after the static download
\* has failed as well.
C24_RemedialOrder ==
    (ev.op = "setup_ffmpeg" /\ ~is_available(ev.before)) =>
        LET steps == ev.steps
            managers == {i \in DOMAIN steps : steps[i].step # "static"}
        IN /\ \A i \in managers :
                  /\ i \in DOMAIN package_managers
                  /\ steps[i].step = package_managers[i]
                  /\ steps[i].found => steps[i].probed
           /\ \A i \in DOMAIN steps : steps[i].found => i = Len(steps)
           /\ \A i \in DOMAIN steps :
                  steps[i].step = "static" =>
                      /\ i = Len(package_managers) + 1
                      /\ \A j \in 1 .. Len(package_managers) :
                             steps[j].step = package_managers[j] /\ ~steps[j].found
           /\ ~ev.result =>
                  /\ steps # <<>>
                  /\ steps[Len(steps)].step = "static"
                  /\ ~steps[Len(steps)].found

\* C25: whenever setup_ffmpeg returns True, os.environ['FFMPEG_LOCATION'] is
\* set, to the directory of the ffmpeg found, when it returns.
C25_LocationPublished ==
    (ev.op = "setup_ffmpeg" /\ ev.result) =>
        /\ "FFMPEG_LOCATION" \in DOMAIN host.environ
        /\ host.environ =
               setup_ytdlp_ffmpeg_location(host.ffmpeg_manager, EmptyMap)

----------------------------------------------------------------------------
(* Claims on the SongRecognizer, checked under SpecRecognizer *)

\* C26: for an existing file and a response of the service that holds a track,
\* recognize_song returns a dictionary, without an exception raised in its
\* body, whichever of the parts of the track are missing or empty; a field
\* whose part is missing has its default.
C26_DefaultsNeverRaise ==
    (/\ ev.op = "recognize_song"
     /\ ev.args.exists
     /\ ~ev.response.raises
     /\ Get(ev.response.result, "track", EmptyMap) # EmptyMap) =>
        LET track == ev.response.result["track"]
        IN /\ ev.exc = ""
           /\ ev.result # NoSong
           /\ "title" \notin DOMAIN track =>
                  /\ ev.result.title = "Unknown" /\ ev.result.artist = "Unknown"
                  /\ ev.result.duration = 0 /\ ev.result.year = 0
                  /\ ev.result.shazam_id = "" /\ ev.result.isrc = ""
           /\ "sections" \notin DOMAIN track => ev.result.album = "Unknown"
           /\ "genres" \notin DOMAIN track => ev.result.genre = ""
           /\ "images" \notin DOMAIN track => ev.result.image_url = ""
           /\ "hub" \notin DOMAIN track =>
                  /\ ev.result.spotify_url = "" /\ ev.result.apple_url = ""
                  /\ ev.result.youtube_url = ""

\* C27: get_top_tracks makes one request to the service: for the chart of the
\* city when a city and a country are given, for the chart of the country when
\* only a country is given, for the chart of the world when neither is given.
\* An argument is given when it is neither None nor the empty string.
C27_OneChartRequest ==
    ev.op = "get_top_tracks" =>
        /\ Len(ev.requests) = 1
        /\ (Truthy(ev.args.city_name) /\ Truthy(ev.args.country_code)) =>
               ev.requests[1].api = "top_city_tracks"
        /\ (~Truthy(ev.args.city_name) /\ Truthy(ev.args.country_code)) =>
               ev.requests[1].api = "top_country_tracks"
        /\ (~Truthy(ev.args.city_name) /\ ~Truthy(ev.args.country_code)) =>
               ev.requests[1].api = "top_world_tracks"

\* the chart of a city has been requested for a city and a country, and its
\* tracks returned
C27_Witness ==
    /\ ev.op = "get_top_tracks"
    /\ ev.args.city_name = "London"
    /\ ev.args.country_code = "GB"
    /\ ev.requests = <<[api |-> "top_city_tracks", limit |-> ev.args.limit]>>
    /\ ev.result # <<>>

\* C28: the list search_song, search_artist, get_related_tracks or
\* get_top_tracks returns has at most `limit` entries (10 for search_song),
\* however many entries the response of the service has.
C28_AtMostLimit ==
    ev.op \in {"search_song", "search_artist", "get_related_tracks", "get_top_tracks"} =>
        Len(ev.result) <= ev.args.limit

----------------------------------------------------------------------------
(* The claim on interleaved requests, checked under SpecInterleave *)

\* C29: on the in-process backend, however the handlers of different users
\* interleave, each counter equals the number of increment_stat calls
\* completed on it, every user saved is stored and total_users is the number
\* of distinct users saved.
C29_NoLostUpdate ==
    /\ \A name \in DOMAIN ev.completed :
           svc.local_storage.statistics[name] = ev.completed[name]
    /\ DOMAIN svc.local_storage.users = {str(user_id) : user_id \in ev.saved}
    /\ svc.local_storage.statistics["total_users"] = Cardinality(ev.saved)

\* two users saved and two increments of one counter completed, a handler
\* having run between two steps of another
C29_Witness ==
    /\ ev.interleaved
    /\ ev.completed["songs_recognized"] = 2
    /\ Cardinality(ev.saved) = 2
    /\ svc.local_storage.statistics["total_users"] = 2

----------------------------------------------------------------------------
(* The claim on the sessions of other users, checked under SpecSession *)

\* what the bot holds for user_id: the conversation state, the language
\* chosen and the scratch data of the conversation
Session(self, user_id) ==
    [state |-> StateOf(self, user_id),
     present |-> user_id \in DOMAIN self.user_states,
     language |-> get_user_language(self, user_id),
     chosen |-> user_id \in DOMAIN self.user_languages,
     data |-> self.user_data[user_id]]

\* C30: handling an update of one user leaves the conversation state, the
\* language and the scratch data of every other user as they were.
C30_OthersUnchanged ==
    [][\A other \in BotUsers :
          other # ev'.user_id => Session(bot', other) = Session(bot, other)]_vars

\* a user has an open conversation, a language chosen and scratch data while
\* the update just handled was another user's and changed that user's state
C30_Witness ==
    \E other \in BotUsers \ {ev.user_id} :
        /\ StateOf(bot, other) = BROADCAST_WAITING_FOR_DURATION
        /\ get_user_language(bot, other) = "fa"
        /\ bot.user_data[other] # EmptyMap
        /\ ev.op = "handle_callback_query"
        /\ StateOf(bot, ev.user_id) = EDIT_SONG_WAITING_FOR_FILE

----------------------------------------------------------------------------
(* The claims on the records of the users, checked under SpecLifecycle *)

\* C31: a user record once stored stays in the store with its identifier and
\* its join time as first stored, and a repeated start does not change its
\* language.
C31_OnlyLanguageChanges ==
    [][\A k \in DOMAIN UsersOf(svc) :
          /\ k \in DOMAIN UsersOf(svc')
          /\ UsersOf(svc')[k].id = UsersOf(svc)[k].id
          /\ UsersOf(svc')[k].joined_at = UsersOf(svc)[k].joined_at
          /\ (ev'.op = "start_command" =>
                 UsersOf(svc')[k].language = UsersOf(svc)[k].language)]_vars

\* C32: the language the bot looks messages up in, and the language of the
\* stored record, is en or fa for every user, and en for a user who has made
\* no choice.
C32_SupportedLanguage ==
    \A user_id \in BotUsers :
        /\ get_user_language(bot, user_id) \in {"en", "fa"}
        /\ (user_id \notin DOMAIN bot.user_languages =>
               get_user_language(bot, user_id) = "en")
        /\ (str(user_id) \in DOMAIN UsersOf(svc) =>
               /\ UsersOf(svc)[str(user_id)].language \in {"en", "fa"}
               /\ (user_id \notin DOMAIN bot.user_languages =>
                      UsersOf(svc)[str(user_id)].language = "en"))

----------------------------------------------------------------------------
(* The claim on the keys of songs, checked under SpecSongs *)

\* C33: a successful save_song of a song without an identifier of the service
\* stores it under a key of its own: every song stored before is still
\* stored, with the fields it was saved with.
C33_OwnKey ==
    [][(/\ ret'.op = "save_song"
        /\ ~ret'.raised
        /\ ~Truthy(ret'.args.song.shazam_id)) =>
          \A k \in DOMAIN SongsOf(svc) :
              k \in DOMAIN SongsOf(svc') /\ SongsOf(svc')[k] = SongsOf(svc)[k]]_vars

----------------------------------------------------------------------------
(* The claim on format_duration, checked under SpecFormat *)

\* the fields of a text between its colons
RECURSIVE Fields(_)
Fields(text) ==
    IF \A i \in 1 .. Len(text) : text[i] # ":" THEN <<text>>
    ELSE LET i == CHOOSE j \in 1 .. Len(text) :
                      text[j] = ":" /\ \A h \in 1 .. j - 1 : text[h] # ":"
         IN <<SubSeq(text, 1, i - 1)>> \o Fields(SubSeq(text, i + 1, Len(text)))

\* the number a field of decimal digits spells
RECURSIVE Value(_)
Value(field) ==
    IF field = <<>> THEN 0
    ELSE 10 * Value(SubSeq(field, 1, Len(field) - 1))
         + (CHOOSE d \in 0 .. 9 : ToString(d) = field[Len(field)])

\* a number written without padding
Plain(field) == field # <<>> /\ (Len(field) > 1 => field[1] # "0")

\* C34: format_duration(s) is M:SS below an hour and H:MM:SS from an hour on,
\* the leading field unpadded and the others of two digits, with the values
\* s div 3600, s div 60 (mod 60 from an hour on) and s mod 60; it is 0:00 for
\* s < 0.
C34_FormatDuration ==
    ev.op = "format_duration" =>
        LET s == ev.seconds
            f == Fields(ev.result)
        IN /\ s < 0 => ev.result = <<"0", ":", "0", "0">>
           /\ (0 <= s /\ s < 3600) =>
                  /\ Len(f) = 2
                  /\ Plain(f[1]) /\ Value(f[1]) = s \div 60
                  /\ Len(f[2]) = 2 /\ Value(f[2]) = s % 60
           /\ s >= 3600 =>
                  /\ Len(f) = 3
                  /\ Plain(f[1]) /\ Value(f[1]) = s \div 3600
                  /\ Len(f[2]) = 2 /\ Value(f[2]) = (s \div 60) % 60
                  /\ Len(f[3]) = 2 /\ Value(f[3]) = s % 60
           /\ s = 0 => ev.result = <<"0", ":", "0", "0">>
           /\ s = 65 => ev.result = <<"1", ":", "0", "5">>
           /\ s = 3661 => ev.result = <<"1", ":", "0", "1", ":", "0", "1">>

\* an hour, a minute and a second have been formatted
C34_Witness ==
    /\ ev.op = "format_duration"
    /\ ev.seconds = 3661
    /\ ev.result = <<"1", ":", "0", "1", ":", "0", "1">>

----------------------------------------------------------------------------
(* The claim on the identifiers of broadcasts, checked under SpecBroadcast *)

\* C35: save_broadcast_message returns an identifier under which no record
\* has been stored before, and not the identifier the call before it returned.
C35_FreshIdentifier ==
    [][ret'.op = "save_broadcast_message" =>
          /\ ret'.result \notin ever.stored
          /\ (ret.op = "save_broadcast_message" => ret'.result # ret.result)]_vars

----------------------------------------------------------------------------
(* The claims on the broadcast flow and the scratch data, checked under       *)
(* SpecBot                                                                    *)

\* the update just handled was the duration text of ev'.user_id and the
\* broadcast went out
Broadcast == ev'.op = "handle_text_message" /\ ev'.out.text # <<>>

\* C36: when the administrator's duration text completes the broadcast flow,
\* the store holds a broadcast record with the message, the duration and the
\* administrator as sender.
C36_BroadcastStored ==
    [][Broadcast =>
          \E k \in DOMAIN Broadcasts(svc') :
              /\ Broadcasts(svc')[k].message = ev'.out.text
              /\ Broadcasts(svc')[k].duration_hours = int(ev'.arg).value
              /\ Broadcasts(svc')[k].sent_by = ev'.user_id]_vars

C38_ScratchMatchesState ==
    \A u \in BotUsers :
        /\ "edit_file_id" \in DOMAIN bot.user_data[u] <=>
               StateOf(bot, u) = EDIT_SONG_WAITING_FOR_INFO
        /\ "broadcast_message" \in DOMAIN bot.user_data[u] <=>
               StateOf(bot, u) = BROADCAST_WAITING_FOR_DURATION

----------------------------------------------------------------------------
(* The claim on the two counters of songs, checked under SpecCounters *)

----------------------------------------------------------------------------
(* The claim on the temp directory, checked under SpecTemp *)

\* C40: clean_temp_files called with a path removes no file but that one,
\* and leaves the temp file of every other request in progress in place.
C40_AtMostThatFile ==
    [][ev'.op = "clean_temp_files" =>
          /\ host.temp \ host'.temp \subseteq {ev'.arg}
          /\ \A u \in UserIds \ {ev'.user_id} :
                 (ev.file_path[u] # NoPath /\ ev.file_path[u] \in host.temp) =>
                     ev.file_path[u] \in host'.temp]_vars

----------------------------------------------------------------------------
(* The claim on the two backends, checked under SpecTwin *)

\* C10: on the same calls from empty stores both backends return the same
\* success flags, and get_statistics returns the same total_users,
\* songs_recognized and songs_downloaded.
C10_BackendsAgree ==
    /\ ret.op \in {"save_user", "save_song", "update_user_language", "increment_stat"}
          => ret.result = twin_ret.result
    /\ ret.op = "get_statistics" =>
          \A m \in {"total_users", "songs_recognized", "songs_downloaded"} :
              ret.result[m] = twin_ret.result[m]

=============================================================================
